---- MODULE Spec2Model ----
(***************************************************************************)
(* STM32 HASH driver (core/drivers/crypto/stm32/stm32_hash.c): sessions    *)
(* multiplexed on one hash engine by register save/restore under a mutex.  *)
(*                                                                         *)
(* Bytes are integers: 0 is a zero byte, 1..255 are the caller's data (the *)
(* byte at position p of a session's input is Byte(s, p), so a lost, moved *)
(* or duplicated byte shows), Junk stands for a byte read outside the      *)
(* caller's buffer.  A 32-bit word is its four bytes in memory order.      *)
(* size_t values that wrapped below zero are kept as negative integers and *)
(* compared as the huge unsigned values they are (see SizeGE).             *)
(***************************************************************************)
EXTENDS Integers, Sequences, FiniteSets, TLC

\* ------------------------------------------------------------------ bounds
MaxCalls == 3
MaxStall == 0
MaxBusyAt == 1
MaxFaults == 1
ShortLen == 1
ShortKey == 5
\* HASH_TIMEOUT_US in ticks of the counter, and the waits followed one after the other
TimeoutTicks == 2
MaxWaits == 2

\* ------------------------------------------------- constants of the source
HASH_CR_INIT == 4
HASH_CR_MODE == 64
HASH_CR_DATATYPE_BYTE == 2 * 16
HASH_CR_LKEY == 65536
HASH_CR_ALGO_SHIFT == 17
HASH_CR_ALGO_MD5 == 128
HASH_CR_ALGO_SHA1 == 0 * (2 ^ HASH_CR_ALGO_SHIFT)
HASH_CR_ALGO_SHA224 == 2 * (2 ^ HASH_CR_ALGO_SHIFT)
HASH_CR_ALGO_SHA256 == 3 * (2 ^ HASH_CR_ALGO_SHIFT)
HASH_CR_ALGO_SHA256_IF_MD5 == (2 ^ 18) + (2 ^ 7)
HASH_CR_ALGO_SHA384 == 12 * (2 ^ HASH_CR_ALGO_SHIFT)
HASH_CR_ALGO_SHA512 == 15 * (2 ^ HASH_CR_ALGO_SHIFT)
HASH_CR_ALGO_SHA3_224 == 4 * (2 ^ HASH_CR_ALGO_SHIFT)
HASH_CR_ALGO_SHA3_256 == 5 * (2 ^ HASH_CR_ALGO_SHIFT)
HASH_CR_ALGO_SHA3_384 == 6 * (2 ^ HASH_CR_ALGO_SHIFT)
HASH_CR_ALGO_SHA3_512 == 7 * (2 ^ HASH_CR_ALGO_SHIFT)

HASH_STR_NBLW_MASK == 31
HASH_STR_DCAL == 256

MD5_DIGEST_U32 == 4
SHA1_DIGEST_U32 == 5
SHA224_DIGEST_U32 == 7
SHA256_DIGEST_U32 == 8
SHA384_DIGEST_U32 == 12
SHA512_DIGEST_U32 == 16
SHA3_224_DIGEST_U32 == 7
SHA3_256_DIGEST_U32 == 8
SHA3_384_DIGEST_U32 == 12
SHA3_512_DIGEST_U32 == 16

MD5_BLOCK_SIZE == 64
SHA1_BLOCK_SIZE == 64
SHA224_BLOCK_SIZE == 64
SHA256_BLOCK_SIZE == 64
SHA384_BLOCK_SIZE == 128
SHA512_BLOCK_SIZE == 128
SHA3_224_BLOCK_SIZE == 144
SHA3_256_BLOCK_SIZE == 136
SHA3_384_BLOCK_SIZE == 104
SHA3_512_BLOCK_SIZE == 72

SAVE_SMALL == 1
SAVE_BIG == 2
SAVE_SHA3 == 3
SAVE_SMALL_NB_REG == 22
SAVE_SMALL_FIRST_REG == 0
SAVE_SMALL_HMAC_NB_REG == 16
SAVE_SMALL_HMAC_FIRST_REG == 38
SAVE_BIG_NB_REG == 91
SAVE_BIG_FIRST_REG == 0
SAVE_BIG_HMAC_NB_REG == 12
SAVE_BIG_HMAC_FIRST_REG == 91
SAVE_SHA3_NB_REG == 72
SAVE_SHA3_FIRST_REG == 0
SAVE_SHA3_HMAC_NB_REG == 72
SAVE_SHA3_HMAC_FIRST_REG == 16

CAPS_MD5 == 1
CAPS_SHA1 == 2
CAPS_SHA2_224 == 4
CAPS_SHA2_256 == 8
CAPS_SHA2_384 == 16
CAPS_SHA2_512 == 32
CAPS_SHA3 == 64

\* sizeof(uint32_t)
U32 == 4

mp13_compat == CAPS_SHA1 + CAPS_SHA2_224 + CAPS_SHA2_256 + CAPS_SHA2_384 + CAPS_SHA2_512 + CAPS_SHA3
mp15_compat == CAPS_MD5 + CAPS_SHA1 + CAPS_SHA2_224 + CAPS_SHA2_256

STM32_HASH_MODE == "STM32_HASH_MODE"
STM32_HMAC_MODE == "STM32_HMAC_MODE"
Modes == {STM32_HASH_MODE, STM32_HMAC_MODE}

\* enum stm32_hash_algo as the switch statements know it; "UNKNOWN" is any other value
KnownAlgos == {"MD5", "SHA1", "SHA224", "SHA256", "SHA384", "SHA512", "SHA3_224", "SHA3_256", "SHA3_384", "SHA3_512"}

TEE_SUCCESS == "TEE_SUCCESS"
TEE_ERROR_BUSY == "TEE_ERROR_BUSY"
TEE_ERROR_BAD_STATE == "TEE_ERROR_BAD_STATE"
TEE_ERROR_BAD_PARAMETERS == "TEE_ERROR_BAD_PARAMETERS"
TEE_ERROR_NOT_IMPLEMENTED == "TEE_ERROR_NOT_IMPLEMENTED"
TEE_ERROR_OUT_OF_MEMORY == "TEE_ERROR_OUT_OF_MEMORY"
\* the call did not return: a data abort inside it stopped the core
ABORTED == "ABORTED"

NULL == 0

\* ------------------------------------------------------------ bit helpers
\* v & bit /= 0, for bit a power of two
HasBit(v, bit) == (v \div bit) % 2 = 1
\* v | bit
SetBit(v, bit) == IF HasBit(v, bit) THEN v ELSE v + bit
\* v & ~bit
ClrBit(v, bit) == IF HasBit(v, bit) THEN v - bit ELSE v
\* (v & ~HASH_STR_NBLW_MASK) | set: io_clrsetbits32 on the low five bits
ClrSetNblw(v, set) == v - (v % (HASH_STR_NBLW_MASK + 1)) + set

ROUNDUP(v, a) == ((v + a - 1) \div a) * a
ROUNDUP_DIV(v, a) == (v + a - 1) \div a

\* a >= b on size_t, where a negative a is a value that wrapped below zero
SizeGE(a, b) == a < 0 \/ a >= b

Junk == 255 + 1
ZeroSeq(n) == [i \in 1..n |-> 0]

\* bytes [off, off+n) of a caller's buffer; what lies outside it is Junk
Peek(buffer, off, n) == [k \in 1..n |-> IF off + k \in DOMAIN buffer THEN buffer[off + k] ELSE Junk]
\* memcpy(data + off, bytes, Len(bytes)) into a block of Len(data) bytes
Poke(data, off, bytes) == [k \in 1..Len(data) |-> IF k > off /\ k <= off + Len(bytes) THEN bytes[k - off] ELSE data[k]]
\* ((uint32_t *)data)[i]
BufWord(data, i) == Peek(data, U32 * i, U32)

\* ------------------------------------------------------------- the engine
(* The engine is not part of the driver.  It is modelled by the contract   *)
(* the driver relies on: a write of CR with INIT restarts the digest for   *)
(* the selected algorithm, every word written to DIN (and the DCAL         *)
(* trigger, with the NBLW it finds) is absorbed into each context          *)
(* register, the context registers read back the accumulated state and can *)
(* be written to load one; INIT and DCAL read back as zero.  The state of  *)
(* a context register is a hash of its index, the CR the digest was        *)
(* started with and what it absorbed; csr holds the registers as last      *)
(* loaded, (mult, add) what was absorbed since.                            *)
(***************************************************************************)
NCSR == SAVE_BIG_HMAC_FIRST_REG + SAVE_BIG_HMAC_NB_REG
CsrIdx == 0..(NCSR - 1)

WordVal(w) == (w[1] + 3 * w[2] + 7 * w[3] + 11 * w[4] + 1) % 32749
DcalVal(nblw) == 30000 + nblw
\* one entry of a session's log of engine input: a word, or <<-1, nblw>> for DCAL
EntryVal(e) == IF Len(e) = U32 THEN WordVal(e) ELSE DcalVal(e[2])
Mix(v, x) == (v * 31 + x) % 32749
EngineReset(cr, i) == ((cr + 7 * i) % 32749) + 1

HwReset == [cr |-> 0, str |-> 0, imr |-> 0, csr |-> [i \in CsrIdx |-> 0], mult |-> 1, add |-> 0]

HwCsrRead(hw, i) == (hw.csr[i] * hw.mult + hw.add) % 32749
HwSettle(hw) == IF hw.mult = 1 /\ hw.add = 0 THEN hw ELSE [hw EXCEPT !.csr = [i \in CsrIdx |-> HwCsrRead(hw, i)], !.mult = 1, !.add = 0]
HwAbsorb(hw, x) == [hw EXCEPT !.mult = (@ * 31) % 32749, !.add = Mix(@, x)]
\* io_write32(base + _HASH_CR, v)
HwCrWrite(hw, v) == IF HasBit(v, HASH_CR_INIT) THEN [hw EXCEPT !.cr = ClrBit(v, HASH_CR_INIT), !.csr = [i \in CsrIdx |-> EngineReset(ClrBit(v, HASH_CR_INIT), i)], !.mult = 1, !.add = 0] ELSE [hw EXCEPT !.cr = v]
\* io_write32(base + _HASH_STR, v)
HwStrWrite(hw, v) == IF HasBit(v, HASH_STR_DCAL) THEN HwAbsorb([hw EXCEPT !.str = ClrBit(v, HASH_STR_DCAL)], DcalVal(v % (HASH_STR_NBLW_MASK + 1))) ELSE [hw EXCEPT !.str = v]
\* io_write32(base + _HASH_DIN, w)
HwDinWrite(hw, w) == HwAbsorb(hw, WordVal(w))
\* io_read32(base + _HASH_HR(i)) once the digest is complete
HwHrRead(hw, i) == Mix(HwCsrRead(hw, 0), i)

\* ------------------------------------------------------------ the context
\* a struct stm32_hash_context the caller obtained zeroed
ZeroCtx == [dev |-> FALSE, mode |-> "0", algo |-> "0", digest_u32 |-> 0, block_size |-> 0, save_mode |-> 0, queue_size |-> 0, remain_buf |-> NULL, remain_len |-> 0, csr |-> NULL, cr |-> 0, str |-> 0, imr |-> 0]

AlgoCaps(algo) == CASE algo = "MD5" -> CAPS_MD5 [] algo = "SHA1" -> CAPS_SHA1 [] algo = "SHA224" -> CAPS_SHA2_224 [] algo = "SHA256" -> CAPS_SHA2_256 [] algo = "SHA384" -> CAPS_SHA2_384 [] algo = "SHA512" -> CAPS_SHA2_512 [] OTHER -> CAPS_SHA3
AlgoDigestU32(algo) == CASE algo = "MD5" -> MD5_DIGEST_U32 [] algo = "SHA1" -> SHA1_DIGEST_U32 [] algo = "SHA224" -> SHA224_DIGEST_U32 [] algo = "SHA256" -> SHA256_DIGEST_U32 [] algo = "SHA384" -> SHA384_DIGEST_U32 [] algo = "SHA512" -> SHA512_DIGEST_U32 [] algo = "SHA3_224" -> SHA3_224_DIGEST_U32 [] algo = "SHA3_256" -> SHA3_256_DIGEST_U32 [] algo = "SHA3_384" -> SHA3_384_DIGEST_U32 [] OTHER -> SHA3_512_DIGEST_U32
AlgoBlockSize(algo) == CASE algo = "MD5" -> MD5_BLOCK_SIZE [] algo = "SHA1" -> SHA1_BLOCK_SIZE [] algo = "SHA224" -> SHA224_BLOCK_SIZE [] algo = "SHA256" -> SHA256_BLOCK_SIZE [] algo = "SHA384" -> SHA384_BLOCK_SIZE [] algo = "SHA512" -> SHA512_BLOCK_SIZE [] algo = "SHA3_224" -> SHA3_224_BLOCK_SIZE [] algo = "SHA3_256" -> SHA3_256_BLOCK_SIZE [] algo = "SHA3_384" -> SHA3_384_BLOCK_SIZE [] OTHER -> SHA3_512_BLOCK_SIZE
AlgoSaveMode(algo) == IF algo \in {"MD5", "SHA1", "SHA224", "SHA256"} THEN SAVE_SMALL ELSE IF algo \in {"SHA384", "SHA512"} THEN SAVE_BIG ELSE SAVE_SHA3

\* get_save_registers with the HMAC registers counted in every mode
get_save_registers_hmac_always(c) ==
    CASE c.save_mode = SAVE_SMALL -> [nb_reg |-> SAVE_SMALL_NB_REG, first |-> SAVE_SMALL_FIRST_REG, hmac_nb_reg |-> SAVE_SMALL_HMAC_NB_REG, hmac_first |-> SAVE_SMALL_HMAC_FIRST_REG]
      [] c.save_mode = SAVE_BIG -> [nb_reg |-> SAVE_BIG_NB_REG, first |-> SAVE_BIG_FIRST_REG, hmac_nb_reg |-> SAVE_BIG_HMAC_NB_REG, hmac_first |-> SAVE_BIG_HMAC_FIRST_REG]
      [] c.save_mode = SAVE_SHA3 -> [nb_reg |-> SAVE_SHA3_NB_REG, first |-> SAVE_SHA3_FIRST_REG, hmac_nb_reg |-> SAVE_SHA3_HMAC_NB_REG, hmac_first |-> SAVE_SHA3_HMAC_FIRST_REG]
      [] OTHER -> [nb_reg |-> 0, first |-> 0, hmac_nb_reg |-> 0, hmac_first |-> 0]

get_save_registers(c) ==
    LET hm == c.mode = STM32_HMAC_MODE
    IN  CASE c.save_mode = SAVE_SMALL -> [nb_reg |-> SAVE_SMALL_NB_REG, first |-> SAVE_SMALL_FIRST_REG, hmac_nb_reg |-> IF hm THEN SAVE_SMALL_HMAC_NB_REG ELSE 0, hmac_first |-> IF hm THEN SAVE_SMALL_HMAC_FIRST_REG ELSE 0]
          [] c.save_mode = SAVE_BIG -> [nb_reg |-> SAVE_BIG_NB_REG, first |-> SAVE_BIG_FIRST_REG, hmac_nb_reg |-> IF hm THEN SAVE_BIG_HMAC_NB_REG ELSE 0, hmac_first |-> IF hm THEN SAVE_BIG_HMAC_FIRST_REG ELSE 0]
          [] c.save_mode = SAVE_SHA3 -> [nb_reg |-> SAVE_SHA3_NB_REG, first |-> SAVE_SHA3_FIRST_REG, hmac_nb_reg |-> IF hm THEN SAVE_SHA3_HMAC_NB_REG ELSE 0, hmac_first |-> IF hm THEN SAVE_SHA3_HMAC_FIRST_REG ELSE 0]
          [] OTHER -> [nb_reg |-> 0, first |-> 0, hmac_nb_reg |-> 0, hmac_first |-> 0]

\* --------------------------------------------------- register transport
(* A call in progress is a record m: the engine hw, the caller's context c, *)
(* the heap, the call's result res, the caller's buffer with the cursor    *)
(* (off, len) the code advances, what the environment answers (env), and   *)
(* what the call did: io counts its register accesses, nw its writes to    *)
(* DIN, log is the session's engine input since its hw_init.               *)
(***************************************************************************)
(* wait_end_busy and wait_digest_ready read by read (lines 150-182).  wt is  *)
(* the wait in progress: which flag, the place in the function, the counter *)
(* (now) and the deadline timeout_init_us returned, the calls of            *)
(* timeout_init_us (inits), the reads of SR in the loop (reads) and after   *)
(* it (rereads), whether timeout_elapsed answered true (fired), what the    *)
(* last read showed (last: TRUE when the flag has not settled) and the      *)
(* result.  The flag is the engine's: BUSY falls, DCIS rises, and neither   *)
(* goes back during a wait, nothing being written meanwhile.                *)
(***************************************************************************)
\* timeout_init_us(HASH_TIMEOUT_US)
timeout_init_us(now) == now + TimeoutTicks
\* timeout_elapsed(timeout)
timeout_elapsed(now, timeout) == now > timeout
\* the return after the loop with the deadline deciding, not the read after it
wait_exit_on_deadline(fired, unsettled) == IF fired THEN TEE_ERROR_BUSY ELSE TEE_SUCCESS
\* lines 158-164 and 175-181: the result by the read after the loop
wait_exit(fired, unsettled) == IF unsettled THEN TEE_ERROR_BUSY ELSE TEE_SUCCESS
\* what a read of the flag can show when the read before showed last
FlagReads(unsettled) == IF unsettled THEN BOOLEAN ELSE {FALSE}

\* wait_end_busy: the busy flag settles unless the environment keeps it set
wait_end_busy(m, stuck) == [m EXCEPT !.io = @ + 2, !.res = IF stuck THEN TEE_ERROR_BUSY ELSE TEE_SUCCESS]

\* hash_write_data returning without the wait for the busy flag
hash_write_data_no_wait(m, w) == [m EXCEPT !.hw = HwDinWrite(@, w), !.io = @ + 1, !.nw = @ + 1, !.log = Append(@, w)]

hash_write_data(m, w) == wait_end_busy([m EXCEPT !.hw = HwDinWrite(@, w), !.io = @ + 1, !.nw = @ + 1, !.log = Append(@, w)], m.nw + 1 = m.env.busyAt)

\* io_setbits32(base + _HASH_STR, _HASH_STR_DCAL)
SetDcal(m) == [m EXCEPT !.hw = HwStrWrite(@, SetBit(m.hw.str, HASH_STR_DCAL)), !.io = @ + 2, !.log = Append(@, <<-1, m.hw.str % (HASH_STR_NBLW_MASK + 1)>>)]
\* io_clrsetbits32(base + _HASH_STR, _HASH_STR_NBLW_MASK, v)
SetNblw(m, v) == [m EXCEPT !.hw = HwStrWrite(@, ClrSetNblw(m.hw.str, v)), !.io = @ + 2]

RECURSIVE WriteKeyWords(_, _, _)
WriteKeyWords(m, key, off) ==
    IF (Len(key) - off) \div U32 = 0 THEN m
    ELSE LET m1 == hash_write_data(m, Peek(key, off, U32))
         IN  IF m1.res # TEE_SUCCESS THEN m1 ELSE WriteKeyWords(m1, key, off + U32)

write_key(m, key) ==
    LET len == Len(key)
        m0 == SetNblw(m, 8 * (len % U32))
        m1 == WriteKeyWords(m0, key, 0)
        rest == len % U32
        off == len - rest
        m2 == IF m1.res = TEE_SUCCESS /\ rest # 0 THEN hash_write_data(m1, [k \in 1..U32 |-> IF k <= rest THEN key[off + k] ELSE 0]) ELSE m1
    IN  IF m2.res # TEE_SUCCESS THEN m2 ELSE SetDcal(m2)

\* --------------------------------------------------------- save / restore
\* restore_context without the loop over the context registers
restore_context_no_csr(m) ==
    [m EXCEPT !.hw = HwCrWrite(HwStrWrite([m.hw EXCEPT !.imr = m.c.imr], m.c.str), SetBit(m.c.cr, HASH_CR_INIT)), !.io = @ + 3,
              !.res = IF m.c.csr = NULL THEN TEE_ERROR_BAD_STATE ELSE TEE_SUCCESS]

\* restore_context writing the HMAC words to the registers that follow the plain
\* ones, not to the registers from hmac_first on
restore_context_hmac_after_plain(m) ==
    LET c == m.c
        h1 == HwCrWrite(HwStrWrite([m.hw EXCEPT !.imr = c.imr], c.str), SetBit(c.cr, HASH_CR_INIT))
        r == get_save_registers(c)
    IN  IF c.csr = NULL THEN [m EXCEPT !.hw = h1, !.io = @ + 3, !.res = TEE_ERROR_BAD_STATE]
        ELSE LET data == m.heap[c.csr].data
                 word(k) == IF k + 1 \in DOMAIN data THEN data[k + 1] ELSE Junk
                 csr2 == [j \in CsrIdx |->
                            IF j >= r.first + r.nb_reg /\ j < r.first + r.nb_reg + r.hmac_nb_reg THEN word(j - r.first)
                            ELSE IF j >= r.first /\ j < r.first + r.nb_reg THEN word(j - r.first)
                            ELSE h1.csr[j]]
             IN  [m EXCEPT !.hw = [h1 EXCEPT !.csr = csr2], !.io = @ + 3 + r.nb_reg + r.hmac_nb_reg, !.res = TEE_SUCCESS]

restore_context(m) ==
    LET c == m.c
        h1 == HwCrWrite(HwStrWrite([m.hw EXCEPT !.imr = c.imr], c.str), SetBit(c.cr, HASH_CR_INIT))
        r == get_save_registers(c)
    IN  IF c.csr = NULL THEN [m EXCEPT !.hw = h1, !.io = @ + 3, !.res = TEE_ERROR_BAD_STATE]
        ELSE LET data == m.heap[c.csr].data
                 word(k) == IF k + 1 \in DOMAIN data THEN data[k + 1] ELSE Junk
                 csr2 == [j \in CsrIdx |->
                            IF j >= r.hmac_first /\ j < r.hmac_first + r.hmac_nb_reg THEN word(j - r.hmac_first + r.nb_reg)
                            ELSE IF j >= r.first /\ j < r.first + r.nb_reg THEN word(j - r.first)
                            ELSE h1.csr[j]]
             IN  [m EXCEPT !.hw = [h1 EXCEPT !.csr = csr2], !.io = @ + 3 + r.nb_reg + r.hmac_nb_reg, !.res = TEE_SUCCESS]

save_context(m) ==
    LET m1 == wait_end_busy(m, m.env.saveBusy)
        c1 == [m.c EXCEPT !.imr = m.hw.imr, !.str = m.hw.str, !.cr = m.hw.cr]
        r == get_save_registers(c1)
    IN  IF m1.res # TEE_SUCCESS THEN m1
        ELSE IF ~m.env.fifoEmpty THEN [m1 EXCEPT !.io = @ + 1, !.res = TEE_ERROR_BAD_STATE]
        ELSE IF c1.csr = NULL THEN [m1 EXCEPT !.c = c1, !.io = @ + 4, !.res = TEE_ERROR_BAD_STATE]
        ELSE LET data == m.heap[c1.csr].data
                 new == [k \in 1..Len(data) |->
                           IF k - 1 < r.nb_reg THEN HwCsrRead(m.hw, r.first + k - 1)
                           ELSE IF k - 1 < r.nb_reg + r.hmac_nb_reg THEN HwCsrRead(m.hw, r.hmac_first + k - 1 - r.nb_reg)
                           ELSE data[k]]
             IN  [m1 EXCEPT !.c = c1, !.heap[c1.csr].data = new, !.io = @ + 4 + r.nb_reg + r.hmac_nb_reg, !.res = TEE_SUCCESS, !.saved = TRUE]

\* ----------------------------------------------------------------- hw_init
\* the algorithm field of CR with one encoding of SHA-256 on every platform
AlgoCr_sha256_plain(algo, caps) ==
    CASE algo = "MD5" -> HASH_CR_ALGO_MD5
      [] algo = "SHA1" -> HASH_CR_ALGO_SHA1
      [] algo = "SHA224" -> HASH_CR_ALGO_SHA224
      [] algo = "SHA384" -> HASH_CR_ALGO_SHA384
      [] algo = "SHA512" -> HASH_CR_ALGO_SHA512
      [] algo = "SHA3_224" -> HASH_CR_ALGO_SHA3_224
      [] algo = "SHA3_256" -> HASH_CR_ALGO_SHA3_256
      [] algo = "SHA3_384" -> HASH_CR_ALGO_SHA3_384
      [] algo = "SHA3_512" -> HASH_CR_ALGO_SHA3_512
      [] OTHER -> HASH_CR_ALGO_SHA256

AlgoCr(algo, caps) ==
    CASE algo = "MD5" -> HASH_CR_ALGO_MD5
      [] algo = "SHA1" -> HASH_CR_ALGO_SHA1
      [] algo = "SHA224" -> HASH_CR_ALGO_SHA224
      [] algo = "SHA384" -> HASH_CR_ALGO_SHA384
      [] algo = "SHA512" -> HASH_CR_ALGO_SHA512
      [] algo = "SHA3_224" -> HASH_CR_ALGO_SHA3_224
      [] algo = "SHA3_256" -> HASH_CR_ALGO_SHA3_256
      [] algo = "SHA3_384" -> HASH_CR_ALGO_SHA3_384
      [] algo = "SHA3_512" -> HASH_CR_ALGO_SHA3_512
      [] OTHER -> IF HasBit(caps, CAPS_MD5) THEN HASH_CR_ALGO_SHA256_IF_MD5 ELSE HASH_CR_ALGO_SHA256

hw_init(m, key) ==
    LET c == m.c
        hm == c.mode = STM32_HMAC_MODE
        reg_cr == HASH_CR_INIT + HASH_CR_DATATYPE_BYTE + AlgoCr(c.algo, m.caps)
                  + (IF hm THEN HASH_CR_MODE ELSE 0)
                  + (IF hm /\ Len(key) > c.block_size THEN HASH_CR_LKEY ELSE 0)
        m1 == [m EXCEPT !.hw = HwCrWrite(@, reg_cr), !.io = @ + 1, !.log = <<>>, !.res = TEE_SUCCESS]
    IN  IF c.algo \notin KnownAlgos THEN [m EXCEPT !.res = TEE_ERROR_BAD_STATE]
        ELSE IF hm THEN write_key(m1, key)
        ELSE m1

\* ------------------------------------------------------- stm32_hash_update
\* records the engine as restore_context left it at the entry of the call
AtEntry(m) == [m EXCEPT !.entry = m.hw, !.restored = m.res = TEE_SUCCESS]

\* for (i = from; i < n; i++) { hash_write_data(remain.buf[i]); remain.buf[i] = 0; }
RECURSIVE FlushRemain(_, _, _)
FlushRemain(m, i, n) ==
    IF i >= n THEN m
    ELSE LET m1 == hash_write_data(m, BufWord(m.heap[m.c.remain_buf].data, i))
         IN  IF m1.res # TEE_SUCCESS THEN m1
             ELSE FlushRemain([m1 EXCEPT !.heap[m.c.remain_buf].data = Poke(@, U32 * i, ZeroSeq(U32))], i + 1, n)

\* lines 611-638: align the saved bytes with bytes of the new data, write them out
FlushPending(m) ==
    LET c == m.c
        align == ROUNDUP(c.remain_len, U32) - c.remain_len
        data == m.heap[c.remain_buf].data
        m1 == [m EXCEPT !.heap[c.remain_buf].data = Poke(data, c.remain_len, Peek(m.buffer, m.off, align)),
                        !.oob = @ \/ c.remain_len + align > Len(data),
                        !.overrun = @ \/ align > m.len,
                        !.align = align,
                        !.c.remain_len = @ + align,
                        !.off = @ + align,
                        !.len = @ - align]
        m2 == FlushRemain(m1, 0, m1.c.remain_len \div U32)
    IN  IF c.remain_buf = NULL THEN [m EXCEPT !.res = TEE_ERROR_BAD_STATE]
        ELSE IF m2.res # TEE_SUCCESS THEN m2
        ELSE [m2 EXCEPT !.c.remain_len = 0]

(* What a read of the DINIS flag in the streaming loop returns.  "block":  *)
(* the flag is set when the engine has taken a whole block, the first one  *)
(* of block_size + 4 bytes and the next ones of block_size, counted in the *)
(* words written since the session's hw_init finished; "count": the flag   *)
(* is set from the read numbered env.stall on, whatever has been written.  *)
DinisAt(env, c, written, reads) ==
    CASE env.dinis = "count" -> reads >= env.stall
      [] env.dinis = "block" -> written = 0 \/ (written >= c.block_size + U32 /\ (written - U32) % c.block_size = 0)
      [] OTHER -> FALSE
DinisSet(m) == DinisAt(m.env, m.c, U32 * (Len(m.log) - m.base), m.reads)

\* the streaming loop going on while the flag is set instead of while it is not
RECURSIVE StreamLoop_while_set(_)
StreamLoop_while_set(m) ==
    LET ge == SizeGE(m.len, m.c.queue_size)
        m0 == IF ge THEN m ELSE [m EXCEPT !.io = @ + 1, !.reads = @ + 1]
        go == ge \/ DinisSet(m)
        m1 == hash_write_data(m0, Peek(m.buffer, m.off, U32))
        m2 == [m1 EXCEPT !.off = @ + U32, !.len = @ - U32, !.streamed = @ + 1]
    IN  IF ~go THEN m0
        ELSE IF m1.res # TEE_SUCCESS THEN [m1 EXCEPT !.overrun = @ \/ m.len < U32]
        ELSE IF m.len < U32 THEN [m2 EXCEPT !.overrun = TRUE, !.runaway = TRUE, !.res = TEE_ERROR_BUSY]
        ELSE StreamLoop_while_set(m2)

(* lines 649-660.  An iteration entered with fewer than four unread bytes  *)
(* reads past the caller's buffer and wraps len, so that len >=            *)
(* queue_size holds from then on: the loop runs on over memory that is not *)
(* the caller's until a busy-wait times out (the result modelled here) or  *)
(* a read faults (the caller of StreamLoop sees runaway and may abort).    *)
RECURSIVE StreamLoop(_)
StreamLoop(m) ==
    LET ge == SizeGE(m.len, m.c.queue_size)
        m0 == IF ge THEN m ELSE [m EXCEPT !.io = @ + 1, !.reads = @ + 1]
        go == ge \/ ~DinisSet(m)
        m1 == hash_write_data(m0, Peek(m.buffer, m.off, U32))
        m2 == [m1 EXCEPT !.off = @ + U32, !.len = @ - U32, !.streamed = @ + 1]
    IN  IF ~go THEN m0
        ELSE IF m1.res # TEE_SUCCESS THEN [m1 EXCEPT !.overrun = @ \/ m.len < U32]
        ELSE IF m.len < U32 THEN [m2 EXCEPT !.overrun = TRUE, !.runaway = TRUE, !.res = TEE_ERROR_BUSY]
        ELSE StreamLoop(m2)

\* KeepLeftover recording four bytes more than it kept
KeepLeftover_too_long(m) ==
    IF m.len = 0 THEN m
    ELSE IF m.c.remain_buf = NULL THEN [m EXCEPT !.res = TEE_ERROR_BAD_STATE]
    ELSE [m EXCEPT !.heap[m.c.remain_buf].data = Poke(@, 0, Peek(m.buffer, m.off, m.len)), !.c.remain_len = m.len + U32]

\* lines 664-674: keep the bytes left over for the next call
KeepLeftover(m) ==
    LET data == m.heap[m.c.remain_buf].data
    IN  IF m.len = 0 THEN m
        ELSE IF m.c.remain_buf = NULL THEN [m EXCEPT !.res = TEE_ERROR_BAD_STATE]
        ELSE [m EXCEPT !.heap[m.c.remain_buf].data = Poke(data, 0, Peek(m.buffer, m.off, m.len)),
                       !.oob = @ \/ m.len > Len(data),
                       !.c.remain_len = m.len]

\* lines 587-676, between clk_enable and the exit label
stm32_hash_update(m) ==
    LET m1 == AtEntry(restore_context(m))
        c == m1.c
        m2 == IF c.remain_len # 0 THEN FlushPending(m1) ELSE m1
        next_queue_size == IF SizeGE(m2.len, c.queue_size) THEN c.block_size ELSE c.queue_size
        m3 == StreamLoop([m2 EXCEPT !.streamLen = m2.len, !.flushed = TRUE])
        m4 == KeepLeftover([m3 EXCEPT !.c.queue_size = next_queue_size])
    IN  IF m1.res # TEE_SUCCESS THEN m1
        ELSE IF c.remain_len + m1.len < c.queue_size
             THEN IF c.remain_buf = NULL THEN [m1 EXCEPT !.res = TEE_ERROR_BAD_STATE]
                  ELSE [m1 EXCEPT !.heap[c.remain_buf].data = Poke(@, c.remain_len, Peek(m1.buffer, 0, m1.len)),
                                  !.oob = @ \/ c.remain_len + m1.len > Len(m1.heap[c.remain_buf].data),
                                  !.c.remain_len = @ + m1.len]
        ELSE IF m2.res # TEE_SUCCESS THEN m2
        ELSE IF m3.res # TEE_SUCCESS THEN m3
        ELSE IF m4.res # TEE_SUCCESS THEN m4
        ELSE save_context(m4)

\* -------------------------------------------------------- stm32_hash_final
\* hash_get_digest: the digest words as read from HR, each byte-swapped by FROMBE32
hash_get_digest(m) ==
    IF ~m.env.dcis THEN [m EXCEPT !.io = @ + 2, !.res = TEE_ERROR_BUSY]
    ELSE [m EXCEPT !.io = @ + 2 + m.c.digest_u32, !.res = TEE_SUCCESS,
                   !.digest = [i \in 1..m.c.digest_u32 |-> HwHrRead(m.hw, i - 1)]]

\* stm32_hash_final with NBLW given the count of bytes, not of bits
stm32_hash_final_nblw_bytes(m, key) ==
    LET m1 == AtEntry(restore_context(m))
        c == m1.c
        m2 == FlushRemain(m1, 0, ROUNDUP_DIV(c.remain_len, U32))
        m3 == IF c.remain_len # 0
              THEN [SetNblw(m2, c.remain_len % U32) EXCEPT !.c.remain_len = 0]
              ELSE SetNblw(m1, 0)
        m4 == SetDcal([m3 EXCEPT !.dataEnd = Len(m3.log)])
        m5 == IF c.mode = STM32_HMAC_MODE THEN write_key(m4, key) ELSE m4
    IN  IF m1.res # TEE_SUCCESS THEN m1
        ELSE IF c.remain_len # 0 /\ c.remain_buf = NULL THEN [m1 EXCEPT !.res = TEE_ERROR_BAD_STATE]
        ELSE IF c.remain_len # 0 /\ m2.res # TEE_SUCCESS THEN m2
        ELSE IF m5.res # TEE_SUCCESS THEN m5
        ELSE hash_get_digest(m5)

\* stm32_hash_final with the HMAC key written before the DCAL of the message
stm32_hash_final_key_first(m, key) ==
    LET m1 == AtEntry(restore_context(m))
        c == m1.c
        m2 == FlushRemain(m1, 0, ROUNDUP_DIV(c.remain_len, U32))
        m3 == IF c.remain_len # 0
              THEN [SetNblw(m2, 8 * (c.remain_len % U32)) EXCEPT !.c.remain_len = 0]
              ELSE SetNblw(m1, 0)
        m4 == IF c.mode = STM32_HMAC_MODE THEN write_key([m3 EXCEPT !.dataEnd = Len(m3.log)], key) ELSE [m3 EXCEPT !.dataEnd = Len(m3.log)]
        m5 == SetDcal(m4)
    IN  IF m1.res # TEE_SUCCESS THEN m1
        ELSE IF c.remain_len # 0 /\ c.remain_buf = NULL THEN [m1 EXCEPT !.res = TEE_ERROR_BAD_STATE]
        ELSE IF c.remain_len # 0 /\ m2.res # TEE_SUCCESS THEN m2
        ELSE IF m4.res # TEE_SUCCESS THEN m4
        ELSE hash_get_digest(m5)

\* lines 699-737, between clk_enable and the exit label
stm32_hash_final(m, key) ==
    LET m1 == AtEntry(restore_context(m))
        c == m1.c
        m2 == FlushRemain(m1, 0, ROUNDUP_DIV(c.remain_len, U32))
        m3 == IF c.remain_len # 0
              THEN [SetNblw(m2, 8 * (c.remain_len % U32)) EXCEPT !.c.remain_len = 0]
              ELSE SetNblw(m1, 0)
        m4 == SetDcal([m3 EXCEPT !.dataEnd = Len(m3.log)])
        m5 == IF c.mode = STM32_HMAC_MODE THEN write_key(m4, key) ELSE m4
    IN  IF m1.res # TEE_SUCCESS THEN m1
        ELSE IF c.remain_len # 0 /\ c.remain_buf = NULL THEN [m1 EXCEPT !.res = TEE_ERROR_BAD_STATE]
        ELSE IF c.remain_len # 0 /\ m2.res # TEE_SUCCESS THEN m2
        ELSE IF m5.res # TEE_SUCCESS THEN m5
        ELSE hash_get_digest(m5)

\* --------------------------------------------------------- stm32_hash_init
\* stm32_hash_init without line 759: the pending length is kept
stm32_hash_init_keep_pending(m, key) ==
    LET c1 == [m.c EXCEPT !.queue_size = m.c.block_size + U32]
        data == m.heap[c1.remain_buf].data
        m1 == [m EXCEPT !.c = c1, !.heap[c1.remain_buf].data = Poke(data, 0, ZeroSeq(c1.queue_size)),
                        !.oob = @ \/ c1.queue_size > Len(data)]
        m2 == hw_init(m1, key)
    IN  IF c1.remain_buf = NULL THEN [m EXCEPT !.c = c1, !.res = ABORTED]
        ELSE IF m2.res # TEE_SUCCESS THEN m2
        ELSE save_context(m2)

\* lines 759-768, between clk_enable and the exit label; memset through a null
\* remain.buf faults
stm32_hash_init(m, key) ==
    LET c1 == [m.c EXCEPT !.remain_len = 0, !.queue_size = m.c.block_size + U32]
        data == m.heap[c1.remain_buf].data
        m1 == [m EXCEPT !.c = c1, !.heap[c1.remain_buf].data = Poke(data, 0, ZeroSeq(c1.queue_size)),
                        !.oob = @ \/ c1.queue_size > Len(data)]
        m2 == hw_init(m1, key)
    IN  IF c1.remain_buf = NULL THEN [m EXCEPT !.c = c1, !.res = ABORTED]
        ELSE IF m2.res # TEE_SUCCESS THEN m2
        ELSE save_context(m2)

\* -------------------------------------------------- alloc, free, deep_copy
\* the heap: blocks that calloc hands out, lowest unused first
HeapIds == 1..4
NewBlock(heap) == CHOOSE b \in HeapIds : heap[b].st = "unused" /\ \A b2 \in HeapIds : heap[b2].st = "unused" => b <= b2

\* stm32_hash_alloc without the test of the capability set
stm32_hash_alloc_any_caps(c, mode, algo, probed, caps, heap, oom) ==
    LET c2 == [c EXCEPT !.dev = TRUE, !.mode = mode, !.algo = algo, !.digest_u32 = AlgoDigestU32(algo), !.block_size = AlgoBlockSize(algo), !.save_mode = AlgoSaveMode(algo)]
        b1 == NewBlock(heap)
        heap1 == [heap EXCEPT ![b1] = [st |-> "live", data |-> ZeroSeq(c2.block_size + U32)]]
        r == get_save_registers(c2)
        b2 == NewBlock(heap1)
        heap2 == [heap1 EXCEPT ![b2] = [st |-> "live", data |-> ZeroSeq(r.nb_reg + r.hmac_nb_reg)]]
    IN  IF ~probed \/ algo \notin KnownAlgos THEN [c |-> c, heap |-> heap, res |-> TEE_ERROR_NOT_IMPLEMENTED]
        ELSE IF oom # "none" THEN [c |-> [c2 EXCEPT !.remain_buf = NULL], heap |-> heap, res |-> TEE_ERROR_OUT_OF_MEMORY]
        ELSE [c |-> [c2 EXCEPT !.remain_buf = b1, !.csr = b2], heap |-> heap2, res |-> TEE_SUCCESS]

\* oom names the calloc that fails: "none", "buf" or "csr"
stm32_hash_alloc(c, mode, algo, probed, caps, heap, oom) ==
    LET c1 == [c EXCEPT !.dev = TRUE, !.mode = mode, !.algo = algo]
        c2 == [c1 EXCEPT !.digest_u32 = AlgoDigestU32(algo), !.block_size = AlgoBlockSize(algo), !.save_mode = AlgoSaveMode(algo)]
        b1 == NewBlock(heap)
        heap1 == [heap EXCEPT ![b1] = [st |-> "live", data |-> ZeroSeq(c2.block_size + U32)]]
        r == get_save_registers(c2)
        b2 == NewBlock(heap1)
        heap2 == [heap1 EXCEPT ![b2] = [st |-> "live", data |-> ZeroSeq(r.nb_reg + r.hmac_nb_reg)]]
    IN  IF ~probed THEN [c |-> c, heap |-> heap, res |-> TEE_ERROR_NOT_IMPLEMENTED]
        ELSE IF algo \notin KnownAlgos \/ ~HasBit(caps, AlgoCaps(algo)) THEN [c |-> c1, heap |-> heap, res |-> TEE_ERROR_NOT_IMPLEMENTED]
        ELSE IF oom = "buf" THEN [c |-> [c2 EXCEPT !.remain_buf = NULL], heap |-> heap, res |-> TEE_ERROR_OUT_OF_MEMORY]
        ELSE IF oom = "csr" THEN [c |-> [c2 EXCEPT !.remain_buf = b1, !.csr = NULL], heap |-> [heap1 EXCEPT ![b1].st = "freed"], res |-> TEE_ERROR_OUT_OF_MEMORY]
        ELSE [c |-> [c2 EXCEPT !.remain_buf = b1, !.csr = b2], heap |-> heap2, res |-> TEE_SUCCESS]

\* free(p): a null pointer is ignored; releasing a block that is not live is
\* recorded in the block ("twice")
free(heap, p) == IF p = NULL THEN heap ELSE [heap EXCEPT ![p].st = IF @ = "live" THEN "freed" ELSE "twice"]

\* c points to one of the contexts cs, or is NULL; the context is not written
stm32_hash_free(c, cs, heap) == IF c = NULL THEN heap ELSE free(free(heap, cs[c].remain_buf), cs[c].csr)

\* memcpy(dst, src, n) between heap blocks; a null pointer with n > 0 faults
CopyBlock(heap, dst, src, n) == [heap EXCEPT ![dst].data = Poke(@, 0, Peek(heap[src].data, 0, n))]

\* stm32_hash_deep_copy without lines 425-426 and 428-429: dst is left with src's pointers
stm32_hash_deep_copy_shared(cd, cs, heap) ==
    IF cd.mode # cs.mode \/ cd.algo # cs.algo THEN [c |-> cd, heap |-> heap, res |-> TEE_ERROR_BAD_PARAMETERS]
    ELSE [c |-> cs, heap |-> heap, res |-> TEE_SUCCESS]

\* stm32_hash_deep_copy without the copy of the pending bytes, line 431
stm32_hash_deep_copy_no_pending(cd, cs, heap) ==
    LET d1 == [cs EXCEPT !.remain_buf = cd.remain_buf, !.csr = cd.csr]
        r == get_save_registers(d1)
    IN  IF cd.mode # cs.mode \/ cd.algo # cs.algo THEN [c |-> cd, heap |-> heap, res |-> TEE_ERROR_BAD_PARAMETERS]
        ELSE [c |-> d1, heap |-> CopyBlock(heap, d1.csr, cs.csr, r.nb_reg + r.hmac_nb_reg), res |-> TEE_SUCCESS]

\* stm32_hash_deep_copy with the test of line 422 after the copy of the struct
stm32_hash_deep_copy_late_check(cd, cs, heap) ==
    LET d1 == [cs EXCEPT !.remain_buf = cd.remain_buf, !.csr = cd.csr]
        r == get_save_registers(d1)
    IN  IF cd.mode # cs.mode \/ cd.algo # cs.algo THEN [c |-> d1, heap |-> heap, res |-> TEE_ERROR_BAD_PARAMETERS]
        ELSE [c |-> d1, heap |-> CopyBlock(CopyBlock(heap, d1.remain_buf, cs.remain_buf, d1.remain_len), d1.csr, cs.csr, r.nb_reg + r.hmac_nb_reg), res |-> TEE_SUCCESS]

\* dst and src are contexts (null arguments are refused by the caller of this, DeepCopy)
stm32_hash_deep_copy(cd, cs, heap) ==
    LET d1 == [cs EXCEPT !.remain_buf = cd.remain_buf, !.csr = cd.csr]
        r == get_save_registers(d1)
        n == r.nb_reg + r.hmac_nb_reg
        fault1 == d1.remain_len > 0 /\ (d1.remain_buf = NULL \/ cs.remain_buf = NULL)
        heap1 == IF d1.remain_len > 0 THEN CopyBlock(heap, d1.remain_buf, cs.remain_buf, d1.remain_len) ELSE heap
        fault2 == n > 0 /\ (d1.csr = NULL \/ cs.csr = NULL)
        heap2 == IF n > 0 THEN CopyBlock(heap1, d1.csr, cs.csr, n) ELSE heap1
    IN  IF cd.mode # cs.mode \/ cd.algo # cs.algo THEN [c |-> cd, heap |-> heap, res |-> TEE_ERROR_BAD_PARAMETERS]
        ELSE IF fault1 \/ fault2 THEN [c |-> d1, heap |-> heap, res |-> ABORTED]
        ELSE [c |-> d1, heap |-> heap2, res |-> TEE_SUCCESS]

\* ------------------------------------------------------------------ state
VARIABLES prof, probed, caps, hw, heap, ctx, mutex, clk, pc, call, ret, din, input, ncalls, nfaults, life, clean, faulted, base, saved, forked, panic, unguarded, wt

vars == <<prof, probed, caps, hw, heap, ctx, mutex, clk, pc, call, ret, din, input, ncalls, nfaults, life, clean, faulted, base, saved, forked, panic, unguarded, wt>>

Sessions == {1, 2}

\* the caller's data: the byte at position p (from 1) of session s's input
Byte(s, p) == ((p - 1 + 100 * (s - 1)) % 255) + 1
Data(s, pos, n) == [k \in 1..n |-> Byte(s, pos + k)]
Key(s, n) == [k \in 1..n |-> 200 + ((k + s) % 50)]

(* The scenarios explored.  prof names the profile: "alloc" allocates      *)
(* contexts of every algorithm on both platforms, "stream" drives one      *)
(* session through calls of many lengths, "fork" drives two sessions call  *)
(* by call and copies one into the other, "pair" runs two sessions with    *)
(* the lock and the clock as separate steps, "catalog" takes one session   *)
(* of every algorithm and mode through its calls and copies it into a      *)
(* second one, "wait" follows the two polling loops read by read.          *)
AllocChoices(s) ==
    CASE prof = "alloc" -> (KnownAlgos \cup {"UNKNOWN"}) \X Modes
      [] prof = "stream" -> ({"SHA256"} \X Modes) \cup {<<"SHA3_512", STM32_HMAC_MODE>>, <<"UNKNOWN", STM32_HASH_MODE>>}
      [] prof = "catalog" -> IF s = 1 THEN KnownAlgos \X Modes ELSE IF life[1] = "None" THEN {} ELSE {ctx[1].algo} \X Modes
      [] prof = "fork" -> IF s = 1 THEN {"SHA256"} \X Modes ELSE {<<"SHA256", STM32_HMAC_MODE>>, <<"SHA1", STM32_HASH_MODE>>}
      [] OTHER -> IF s = 1 THEN {<<"SHA256", STM32_HASH_MODE>>} ELSE {<<"SHA256", STM32_HMAC_MODE>>}
AllocOoms == IF prof = "alloc" THEN {"none", "buf", "csr"} ELSE {"none"}
KeyLens(c) ==
    IF c.mode # STM32_HMAC_MODE THEN {0}
    ELSE IF prof = "stream" THEN {0, ShortKey, c.block_size + 1}
    ELSE IF prof = "catalog" THEN {ShortKey, c.block_size, c.block_size + 1}
    ELSE {ShortKey}
UpdateLens(c) ==
    IF prof = "stream" THEN {0, ShortLen, c.block_size + 3, 2 * c.block_size + 5}
    ELSE IF prof = "catalog" THEN {c.block_size + 5}
    ELSE {2 * c.block_size + 5}
Total == ncalls[1] + ncalls[2]
CallBound == IF prof = "fork" THEN MaxCalls + 1 ELSE MaxCalls

\* what the engine's status flags answer during one call: how the DINIS flag reads
\* in the streaming loop, and at most one flag that does not settle
Faults(op) ==
    IF prof \in {"fork", "catalog"} \/ nfaults >= MaxFaults THEN {"none"}
    ELSE IF op = "final" THEN {"none", "busy", "dcis"}
    ELSE {"none", "busy", "save_busy", "fifo"}
Dinis(op) ==
    IF op # "update" THEN {<<"block", 0>>}
    ELSE IF prof = "stream" THEN ({"count"} \X (0..MaxStall)) \cup {<<"block", 0>>}
    ELSE {<<"block", 0>>}
Envs(op) ==
    { [dinis |-> d[1], stall |-> d[2], busyAt |-> IF f = "busy" THEN b ELSE 0, saveBusy |-> f = "save_busy", fifoEmpty |-> f # "fifo", dcis |-> f # "dcis"] :
        d \in Dinis(op), f \in Faults(op), b \in 1..MaxBusyAt }
Faulty(env) == env.busyAt # 0 \/ env.saveBusy \/ ~env.fifoEmpty \/ ~env.dcis

NoView == [valid |-> FALSE, cr |-> 0, str |-> 0, imr |-> 0, csr |-> <<>>]
\* what restore_context loads for context c, as the engine holds it
HwView(h, c) ==
    LET r == get_save_registers(c)
    IN  [valid |-> TRUE, cr |-> h.cr, str |-> h.str, imr |-> h.imr,
         csr |-> [k \in 1..(r.nb_reg + r.hmac_nb_reg) |-> IF k - 1 < r.nb_reg THEN HwCsrRead(h, r.first + k - 1) ELSE HwCsrRead(h, r.hmac_first + k - 1 - r.nb_reg)]]
\* the snapshot context c holds
CtxView(hp, c) == [valid |-> TRUE, cr |-> c.cr, str |-> c.str, imr |-> c.imr, csr |-> IF c.csr = NULL THEN <<>> ELSE hp[c.csr].data]

\* the status answers of a call that read no status flag
NoEnv == [dinis |-> "none", stall |-> 0, busyAt |-> 0, saveBusy |-> FALSE, fifoEmpty |-> TRUE, dcis |-> TRUE]
NoRet == [op |-> "none", src |-> 0, env |-> NoEnv, nullbuf |-> FALSE, before |-> [op |-> "none", res |-> TEE_SUCCESS], dinis |-> "none", res |-> TEE_SUCCESS, algo |-> "0", mode |-> "0", key |-> 0, io |-> 0, nw |-> 0, locked |-> FALSE,
          q0 |-> 0, len0 |-> 0, pend0 |-> 0, life0 |-> "None", streamLen |-> 0, flushed |-> FALSE, streamed |-> 0, align |-> 0, reads |-> 0,
          overrun |-> FALSE, runaway |-> FALSE, oob |-> FALSE, dataEnd |-> 0, digest |-> <<>>, foreign |-> FALSE, loaded |-> NoView, expected |-> NoView]
NoCall == [op |-> "none", len |-> 0, key |-> 0]

MachineOf(h, c, hp, logv, basev, env, buffer) ==
    [hw |-> h, c |-> c, heap |-> hp, caps |-> caps, log |-> logv, res |-> TEE_SUCCESS, io |-> 0, nw |-> 0,
     env |-> env, buffer |-> buffer, off |-> 0, len |-> Len(buffer), overrun |-> FALSE, runaway |-> FALSE, oob |-> FALSE,
     align |-> 0, reads |-> 0, streamed |-> 0, streamLen |-> 0, flushed |-> FALSE, saved |-> FALSE, dataEnd |-> 0, digest |-> <<>>,
     entry |-> h, restored |-> FALSE, base |-> basev]
Machine(s, env, buffer) == MachineOf(hw, ctx[s], heap, din[s], base[s], env, buffer)

\* no wait in progress
NoWait == [which |-> "none", pc |-> "idle", n |-> 0, now |-> 0, deadline |-> 0, inits |-> 0, reads |-> 0, rereads |-> 0, fired |-> FALSE, last |-> FALSE, res |-> TEE_SUCCESS]

InitCommon ==
    /\ hw = HwReset
    /\ heap = [b \in HeapIds |-> [st |-> "unused", data |-> <<>>]]
    /\ ctx = [s \in Sessions |-> ZeroCtx]
    /\ mutex = 0
    /\ clk = 0
    /\ pc = [s \in Sessions |-> "idle"]
    /\ call = [s \in Sessions |-> NoCall]
    /\ ret = [s \in Sessions |-> NoRet]
    /\ din = [s \in Sessions |-> <<>>]
    /\ input = [s \in Sessions |-> <<>>]
    /\ ncalls = [s \in Sessions |-> 0]
    /\ nfaults = 0
    /\ life = [s \in Sessions |-> "None"]
    /\ clean = [s \in Sessions |-> FALSE]
    /\ faulted = [s \in Sessions |-> FALSE]
    /\ base = [s \in Sessions |-> 0]
    /\ saved = [s \in Sessions |-> NoView]
    /\ forked = {}
    /\ panic = FALSE
    /\ unguarded = FALSE
    /\ wt = NoWait

\* the platform: stm32_hash_probe has run (lines 838-895) with the compat data of
\* one of the two platforms, or has not
Probed == probed = TRUE /\ caps = mp13_compat
AnyPlatform == probed \in BOOLEAN /\ caps \in (IF probed THEN {mp13_compat, mp15_compat} ELSE {0})

Init == prof = "pair" /\ Probed /\ InitCommon
InitStream == prof = "stream" /\ Probed /\ InitCommon
InitFork == prof = "fork" /\ Probed /\ InitCommon
InitAlloc == prof = "alloc" /\ AnyPlatform /\ InitCommon
InitCatalog == prof = "catalog" /\ AnyPlatform /\ probed /\ InitCommon
InitWait == prof = "wait" /\ Probed /\ InitCommon

\* ---------------------------------------------------------------- actions
\* stm32_hash_alloc on a context the caller has just obtained
Alloc(s) ==
    /\ ~panic /\ pc[s] = "idle" /\ ~ctx[s].dev /\ Total = 0
    /\ \E am \in AllocChoices(s), oom \in AllocOoms :
       \E r \in {stm32_hash_alloc(ctx[s], am[2], am[1], probed, caps, heap, oom)} :
             /\ ctx' = [ctx EXCEPT ![s] = r.c]
             /\ heap' = r.heap
             /\ ret' = [ret EXCEPT ![s] = [NoRet EXCEPT !.op = "alloc", !.res = r.res, !.algo = am[1], !.mode = am[2]]]
             /\ life' = [life EXCEPT ![s] = IF r.res = TEE_SUCCESS THEN "Allocated" ELSE @]
    /\ UNCHANGED <<wt, prof, probed, caps, hw, mutex, clk, pc, call, din, input, ncalls, nfaults, clean, faulted, base, saved, forked, panic, unguarded>>

Callable(s) == ~panic /\ pc[s] = "idle" /\ ctx[s].dev /\ Total < CallBound

\* the checks before mutex_lock with the result of final's check (line 694) in init too
Precheck_bad_state(c, cl) ==
    CASE cl.op = "update" -> IF cl.len = 0 \/ cl.nullbuf THEN TEE_SUCCESS ELSE "enter"
      [] OTHER -> IF cl.key = 0 /\ c.mode = STM32_HMAC_MODE THEN TEE_ERROR_BAD_STATE ELSE "enter"

\* the checks before mutex_lock without the test of the buffer pointer in update
Precheck_len_only(c, cl) ==
    CASE cl.op = "init" -> IF cl.key = 0 /\ c.mode = STM32_HMAC_MODE THEN TEE_ERROR_BAD_PARAMETERS ELSE "enter"
      [] cl.op = "update" -> IF cl.len = 0 THEN TEE_SUCCESS ELSE "enter"
      [] OTHER -> IF cl.key = 0 /\ c.mode = STM32_HMAC_MODE THEN TEE_ERROR_BAD_STATE ELSE "enter"

\* the checks a call makes before mutex_lock: the result it returns there, or
\* "enter" when it goes on.  key = 0 stands for a null key or a length of 0,
\* nullbuf for buffer = NULL
Precheck(c, cl) ==
    CASE cl.op = "init" -> IF cl.key = 0 /\ c.mode = STM32_HMAC_MODE THEN TEE_ERROR_BAD_PARAMETERS ELSE "enter"
      [] cl.op = "update" -> IF cl.len = 0 \/ cl.nullbuf THEN TEE_SUCCESS ELSE "enter"
      [] OTHER -> IF cl.key = 0 /\ c.mode = STM32_HMAC_MODE THEN TEE_ERROR_BAD_STATE ELSE "enter"

Calls(s, op) ==
    CASE op = "update" -> { cl \in [op : {op}, len : UpdateLens(ctx[s]), key : {0}, nullbuf : IF prof = "stream" THEN BOOLEAN ELSE {FALSE}] : cl.nullbuf => cl.len = ShortLen }
      [] OTHER -> { [op |-> op, len |-> 0, key |-> k, nullbuf |-> FALSE] : k \in KeyLens(ctx[s]) }

\* a call that returned before mutex_lock
EarlyReturn(s, cl) ==
    /\ ret' = [ret EXCEPT ![s] = [NoRet EXCEPT !.op = cl.op, !.res = Precheck(ctx[s], cl), !.algo = ctx[s].algo, !.mode = ctx[s].mode, !.key = cl.key, !.nullbuf = cl.nullbuf, !.before = [op |-> ret[s].op, res |-> ret[s].res],
                                               !.q0 = ctx[s].queue_size, !.pend0 = ctx[s].remain_len, !.len0 = cl.len, !.life0 = life[s]]]
    /\ ncalls' = [ncalls EXCEPT ![s] = @ + 1]
    /\ UNCHANGED <<wt, prof, probed, caps, hw, heap, ctx, mutex, clk, pc, call, din, input, nfaults, life, clean, faulted, base, saved, forked, panic, unguarded>>

\* the body of call cl of session s, run on the engine
Body(s, cl, env) ==
    CASE cl.op = "init" -> stm32_hash_init(Machine(s, env, <<>>), Key(s, cl.key))
      [] cl.op = "update" -> stm32_hash_update(Machine(s, env, Data(s, Len(input[s]), cl.len)))
      [] OTHER -> stm32_hash_final(Machine(s, env, <<>>), Key(s, cl.key))

\* what the body r of call cl leaves behind; held tells whether the caller
\* holds the lock with the clock on while the body runs
Effect(s, cl, env, r, held) ==
    LET op == cl.op
        ok == r.res = TEE_SUCCESS
    IN  /\ hw' = HwSettle(r.hw)
        /\ heap' = r.heap
        /\ ctx' = [ctx EXCEPT ![s] = r.c]
        /\ din' = [din EXCEPT ![s] = r.log]
        /\ input' = [input EXCEPT ![s] = IF op = "update" THEN @ \o r.buffer ELSE IF op = "init" THEN <<>> ELSE @]
        /\ saved' = [saved EXCEPT ![s] = IF r.saved THEN CtxView(r.heap, r.c) ELSE @]
        /\ life' = [life EXCEPT ![s] =
                      IF ~ok THEN @
                      ELSE IF op = "init" /\ @ # "None" THEN "Initialized"
                      ELSE IF op = "update" /\ @ \in {"Initialized", "Streaming"} THEN "Streaming"
                      ELSE IF op = "final" /\ @ \in {"Initialized", "Streaming"} THEN "Finalized"
                      ELSE @]
        /\ clean' = [clean EXCEPT ![s] = IF op = "init" THEN ok ELSE @ /\ ok]
        /\ faulted' = [faulted EXCEPT ![s] = IF op = "init" THEN Faulty(env) ELSE @ \/ Faulty(env)]
        /\ base' = [base EXCEPT ![s] = IF op = "init" THEN Len(r.log) ELSE @]
        /\ ret' = [ret EXCEPT ![s] =
                     [op |-> op, src |-> 0, env |-> env, nullbuf |-> cl.nullbuf, before |-> [op |-> ret[s].op, res |-> ret[s].res], dinis |-> env.dinis, res |-> r.res, algo |-> ctx[s].algo, mode |-> ctx[s].mode, key |-> cl.key, io |-> r.io, nw |-> r.nw, locked |-> TRUE,
                      q0 |-> ctx[s].queue_size, len0 |-> cl.len, pend0 |-> ctx[s].remain_len, life0 |-> life[s], streamLen |-> r.streamLen, flushed |-> r.flushed,
                      streamed |-> r.streamed, align |-> r.align, reads |-> r.reads, overrun |-> r.overrun, runaway |-> r.runaway, oob |-> r.oob,
                      dataEnd |-> r.dataEnd, digest |-> r.digest,
                      foreign |-> HwView(hw, ctx[s]) # saved[s],
                      loaded |-> IF r.restored THEN HwView(r.entry, ctx[s]) ELSE NoView,
                      expected |-> IF r.restored THEN saved[s] ELSE NoView]]
        /\ unguarded' = (unguarded \/ (r.io > 0 /\ ~held))
        /\ nfaults' = IF Faulty(env) THEN nfaults + 1 ELSE nfaults

\* one whole call of stm32_hash_init, stm32_hash_update or stm32_hash_final:
\* mutex_lock and clk_enable, the body, and at the exit label clk_disable and
\* mutex_unlock; a fault inside the body never reaches the exit label
Invoke(s, op) ==
    /\ ~panic
    /\ \E cl \in Calls(s, op) :
         IF Precheck(ctx[s], cl) # "enter" THEN EarlyReturn(s, cl)
         ELSE /\ mutex = 0
              /\ ncalls' = [ncalls EXCEPT ![s] = @ + 1]
              /\ \E env \in Envs(op) :
                 \E r \in {Body(s, cl, env)} :
                       /\ Effect(s, cl, env, r, TRUE)
                       /\ \/ r.res # ABORTED /\ UNCHANGED <<mutex, clk, panic>>
                          \/ (r.res = ABORTED \/ r.runaway) /\ mutex' = s /\ clk' = clk + 1 /\ panic' = TRUE
              /\ UNCHANGED <<wt, prof, probed, caps, pc, call, forked>>

HashInit(s) == Callable(s) /\ Invoke(s, "init")
HashUpdate(s) == Callable(s) /\ Invoke(s, "update")
HashFinal(s) == Callable(s) /\ Invoke(s, "final")

\* the same calls in steps: up to mutex_lock, ...
Begin(s, op) ==
    /\ ~panic
    /\ \E cl \in Calls(s, op) :
         IF Precheck(ctx[s], cl) # "enter" THEN EarlyReturn(s, cl)
         ELSE /\ pc' = [pc EXCEPT ![s] = "wait"]
              /\ call' = [call EXCEPT ![s] = cl]
              /\ ncalls' = [ncalls EXCEPT ![s] = @ + 1]
              /\ UNCHANGED <<wt, prof, probed, caps, hw, heap, ctx, mutex, clk, ret, din, input, nfaults, life, clean, faulted, base, saved, forked, panic, unguarded>>

BeginInit(s) == Callable(s) /\ Begin(s, "init")
BeginUpdate(s) == Callable(s) /\ Begin(s, "update")
BeginFinal(s) == Callable(s) /\ Begin(s, "final")

\* ... mutex_lock(&c->dev->lock); clk_enable(c->dev->pdata.clock), ...
mutex_lock(s) == mutex = 0 /\ mutex' = s
\* a call that enables the clock and goes on without mutex_lock
Acquire_without_lock(s) ==
    /\ ~panic /\ pc[s] = "wait"
    /\ clk' = clk + 1
    /\ pc' = [pc EXCEPT ![s] = "held"]
    /\ UNCHANGED <<wt, prof, probed, caps, hw, heap, ctx, mutex, call, ret, din, input, ncalls, nfaults, life, clean, faulted, base, saved, forked, panic, unguarded>>

Acquire(s) ==
    /\ ~panic /\ pc[s] = "wait"
    /\ mutex_lock(s)
    /\ clk' = clk + 1
    /\ pc' = [pc EXCEPT ![s] = "held"]
    /\ UNCHANGED <<wt, prof, probed, caps, hw, heap, ctx, call, ret, din, input, ncalls, nfaults, life, clean, faulted, base, saved, forked, panic, unguarded>>

\* the exit label: clk_disable, mutex_unlock, return res
Release(s) ==
    /\ clk' = clk - 1
    /\ mutex' = 0
    /\ pc' = [pc EXCEPT ![s] = "idle"]
    /\ call' = [call EXCEPT ![s] = NoCall]
    /\ panic' = panic

\* a fault inside the call: it never reaches the exit label
Abort(s) ==
    /\ panic' = TRUE
    /\ UNCHANGED <<mutex, clk, pc, call>>

\* ... and the body with the exit label
Run(s) ==
    /\ ~panic /\ pc[s] = "held"
    /\ \E env \in Envs(call[s].op) :
       \E r \in {Body(s, call[s], env)} :
             /\ Effect(s, call[s], env, r, mutex = s /\ clk > 0)
             /\ \/ r.res # ABORTED /\ Release(s)
                \/ (r.res = ABORTED \/ r.runaway) /\ Abort(s)
    /\ UNCHANGED <<wt, prof, probed, caps, ncalls, forked>>

\* stm32_hash_deep_copy(dst, src) on two contexts, neither in a call
DeepCopy(d, s) ==
    /\ d # s /\ Callable(d) /\ pc[s] = "idle" /\ ctx[s].dev
    /\ \E r \in {stm32_hash_deep_copy(ctx[d], ctx[s], heap)}, ok \in {stm32_hash_deep_copy(ctx[d], ctx[s], heap).res = TEE_SUCCESS} :
           /\ ctx' = [ctx EXCEPT ![d] = r.c]
           /\ heap' = r.heap
           /\ ret' = [ret EXCEPT ![d] = [NoRet EXCEPT !.op = "deep_copy", !.src = s, !.res = r.res, !.algo = ctx[d].algo, !.mode = ctx[d].mode,
                                                      !.q0 = ctx[d].queue_size, !.pend0 = ctx[d].remain_len, !.life0 = life[d]]]
           /\ din' = [din EXCEPT ![d] = IF ok THEN din[s] ELSE @]
           /\ input' = [input EXCEPT ![d] = IF ok THEN input[s] ELSE @]
           /\ life' = [life EXCEPT ![d] = IF ok THEN life[s] ELSE @]
           /\ clean' = [clean EXCEPT ![d] = IF ok THEN clean[s] ELSE @]
           /\ faulted' = [faulted EXCEPT ![d] = IF ok THEN faulted[s] ELSE @]
           /\ base' = [base EXCEPT ![d] = IF ok THEN base[s] ELSE @]
           /\ saved' = [saved EXCEPT ![d] = IF ok THEN saved[s] ELSE @]
           /\ forked' = IF ok THEN forked \cup {<<d, s>>} ELSE forked
           /\ panic' = (r.res = ABORTED)
    /\ ncalls' = [ncalls EXCEPT ![d] = @ + 1]
    /\ UNCHANGED <<wt, prof, probed, caps, hw, mutex, clk, pc, call, nfaults, unguarded>>

\* stm32_hash_deep_copy with a null dst or src: line 422 refuses it
DeepCopyNull(s) ==
    /\ Callable(s)
    /\ ret' = [ret EXCEPT ![s] = [NoRet EXCEPT !.op = "deep_copy_null", !.res = TEE_ERROR_BAD_PARAMETERS, !.algo = ctx[s].algo, !.mode = ctx[s].mode,
                                               !.q0 = ctx[s].queue_size, !.pend0 = ctx[s].remain_len, !.life0 = life[s]]]
    /\ ncalls' = [ncalls EXCEPT ![s] = @ + 1]
    /\ UNCHANGED <<wt, prof, probed, caps, hw, heap, ctx, mutex, clk, pc, call, din, input, nfaults, life, clean, faulted, base, saved, forked, panic, unguarded>>

\* stm32_hash_free by the owner of session s, on its context (allocated, or
\* just refused by stm32_hash_alloc for want of memory) or on a null pointer;
\* what the allocator does with a block released twice is not defined
Free(s) ==
    /\ Callable(s) /\ (life[s] # "None" \/ (ret[s].op = "alloc" /\ ret[s].res = TEE_ERROR_OUT_OF_MEMORY))
    /\ \E c \in {NULL, s} :
       \E hp \in {stm32_hash_free(c, ctx, heap)} :
             /\ heap' = hp
             /\ ret' = [ret EXCEPT ![s] = [NoRet EXCEPT !.op = IF c = NULL THEN "free_null" ELSE "free", !.algo = ctx[s].algo, !.mode = ctx[s].mode, !.life0 = life[s]]]
             /\ panic' \in (IF \E b \in HeapIds : hp[b].st = "twice" /\ heap[b].st # "twice" THEN BOOLEAN ELSE {FALSE})
    /\ ncalls' = [ncalls EXCEPT ![s] = @ + 1]
    /\ UNCHANGED <<wt, prof, probed, caps, hw, ctx, mutex, clk, pc, call, din, input, nfaults, life, clean, faulted, base, saved, forked, unguarded>>

Next ==
    \/ \E s \in Sessions : Alloc(s)
    \/ \E s \in Sessions : BeginInit(s)
    \/ \E s \in Sessions : BeginUpdate(s)
    \/ \E s \in Sessions : BeginFinal(s)
    \/ \E s \in Sessions : Acquire(s)
    \/ \E s \in Sessions : Run(s)

NextStream == Alloc(1) \/ HashInit(1) \/ HashUpdate(1) \/ HashFinal(1)

NextFork ==
    \/ \E s \in Sessions : Alloc(s)
    \/ \E s \in Sessions : HashInit(s)
    \/ \E s \in Sessions : HashUpdate(s)
    \/ \E s \in Sessions : HashFinal(s)
    \/ \E d \in Sessions, s \in Sessions : DeepCopy(d, s)
    \/ \E s \in Sessions : DeepCopyNull(s)

NextAlloc ==
    \/ \E s \in Sessions : Alloc(s)
    \/ \E s \in Sessions : Free(s)

\* entry of wait_end_busy ("busy") or wait_digest_ready ("dcis"): the deadline
WaitEnter(which) ==
    /\ wt.pc = "idle" /\ wt.n < MaxWaits
    /\ wt' = [which |-> which, pc |-> "test", n |-> wt.n + 1, now |-> 0, deadline |-> timeout_init_us(0), inits |-> 1,
              reads |-> 0, rereads |-> 0, fired |-> FALSE, last |-> TRUE, res |-> TEE_SUCCESS]
    /\ UNCHANGED <<prof, probed, caps, hw, heap, ctx, mutex, clk, pc, call, ret, din, input, ncalls, nfaults, life, clean, faulted, base, saved, forked, panic, unguarded>>

\* the test of the while: a read of SR
WaitTest ==
    /\ wt.pc = "test"
    /\ \E f \in FlagReads(wt.last) :
           wt' = [wt EXCEPT !.reads = @ + 1, !.last = f, !.pc = IF f THEN "elapsed" ELSE "reread"]
    /\ UNCHANGED <<prof, probed, caps, hw, heap, ctx, mutex, clk, pc, call, ret, din, input, ncalls, nfaults, life, clean, faulted, base, saved, forked, panic, unguarded>>

\* if (timeout_elapsed(timeout)) break; the counter has advanced since the last look
WaitElapsed ==
    /\ wt.pc = "elapsed"
    /\ \E d \in 1..2 :
           wt' = [wt EXCEPT !.now = @ + d, !.fired = timeout_elapsed(wt.now + d, wt.deadline),
                            !.pc = IF timeout_elapsed(wt.now + d, wt.deadline) THEN "reread" ELSE "test"]
    /\ UNCHANGED <<prof, probed, caps, hw, heap, ctx, mutex, clk, pc, call, ret, din, input, ncalls, nfaults, life, clean, faulted, base, saved, forked, panic, unguarded>>

\* the read of SR after the loop, and the return
WaitReread ==
    /\ wt.pc = "reread"
    /\ \E f \in FlagReads(wt.last) :
           wt' = [wt EXCEPT !.rereads = @ + 1, !.last = f, !.res = wait_exit(wt.fired, f), !.pc = "done"]
    /\ UNCHANGED <<prof, probed, caps, hw, heap, ctx, mutex, clk, pc, call, ret, din, input, ncalls, nfaults, life, clean, faulted, base, saved, forked, panic, unguarded>>

\* the caller goes on
WaitReturn ==
    /\ wt.pc = "done"
    /\ wt' = [wt EXCEPT !.pc = "idle"]
    /\ UNCHANGED <<prof, probed, caps, hw, heap, ctx, mutex, clk, pc, call, ret, din, input, ncalls, nfaults, life, clean, faulted, base, saved, forked, panic, unguarded>>

NextWait ==
    \/ \E which \in {"busy", "dcis"} : WaitEnter(which)
    \/ WaitTest
    \/ WaitElapsed
    \/ WaitReread
    \/ WaitReturn

NextCatalog ==
    \/ \E s \in Sessions : Alloc(s)
    \/ HashInit(1)
    \/ HashUpdate(1)
    \/ \E s \in Sessions : HashFinal(s)
    \/ DeepCopy(2, 1)

Spec == Init /\ [][Next]_vars
SpecStream == InitStream /\ [][NextStream]_vars
SpecFork == InitFork /\ [][NextFork]_vars
SpecAlloc == InitAlloc /\ [][NextAlloc]_vars
SpecCatalog == InitCatalog /\ [][NextCatalog]_vars
\* the thread in a wait keeps running
SpecWait == InitWait /\ [][NextWait]_vars /\ WF_vars(NextWait)

\* ================================================================= claims
\* the register a context keeps in word k (from 1) of its snapshot
SnapshotReg(c, k) ==
    LET r == get_save_registers(c)
    IN  IF k - 1 < r.nb_reg THEN r.first + k - 1 ELSE r.hmac_first + k - 1 - r.nb_reg

\* what a context register holds once the engine, started with v, absorbed log[i..]
RECURSIVE Absorbed(_, _, _)
Absorbed(v, log, i) == IF i > Len(log) THEN v ELSE Absorbed(Mix(v, EntryVal(log[i])), log, i + 1)

(* C1: whatever the other session did in between, an update or final of a *)
(* session loads into the engine exactly the state the session saved at    *)
(* the end of its own last successful call; and from its init to its      *)
(* final, as long as its calls succeed, the snapshot it holds is the state *)
(* of an engine that absorbed the session's own words and nothing else.    *)
C1_Isolation ==
    \A s \in Sessions :
        /\ (ret[s].loaded.valid /\ ret[s].expected.valid) => ret[s].loaded = ret[s].expected
        /\ (clean[s] /\ saved[s].valid /\ life[s] \in {"Initialized", "Streaming"}) =>
               \A k \in DOMAIN saved[s].csr :
                   saved[s].csr[k] = Absorbed(EngineReset(saved[s].cr, SnapshotReg(ctx[s], k)), din[s], 1)

\* an update that found the engine holding another session's state, streamed
\* words of its own and saved
C1_Witness ==
    \E s \in Sessions :
        /\ ret[s].op = "update" /\ ret[s].res = TEE_SUCCESS
        /\ ret[s].foreign /\ ret[s].expected.valid /\ ret[s].loaded = ret[s].expected
        /\ ret[s].nw > 0 /\ clean[s] /\ ctx[3 - s].dev /\ saved[3 - s].valid

(* C2: at most one call is between mutex_lock and mutex_unlock, the call   *)
(* that is there holds the mutex with the clock enabled, no init, update   *)
(* or final has touched a register without both, and a call that returned  *)
(* left the mutex free and the clock off.                                  *)
C2_Bracket ==
    /\ Cardinality({s \in Sessions : pc[s] = "held"}) <= 1
    /\ \A s \in Sessions : pc[s] = "held" => mutex = s /\ clk = 1
    /\ ~unguarded
    /\ (~panic /\ \A s \in Sessions : pc[s] # "held") => mutex = 0 /\ clk = 0

\* one session runs a call while the other, which has used the engine before,
\* waits for the mutex
C2_Witness ==
    \E s \in Sessions :
        /\ pc[s] = "held" /\ mutex = s /\ clk = 1
        /\ pc[3 - s] = "wait" /\ ret[3 - s].locked /\ ret[3 - s].io > 0

\* the bytes of the words log[a..b] in the order the engine takes them
WordBytes(log, a, b) == [k \in 1..(U32 * (b - a + 1)) |-> log[a + ((k - 1) \div U32)][((k - 1) % U32) + 1]]
\* the bytes session s has written to the data-in register since its init loaded the key
Fed(s) == WordBytes(din[s], base[s] + 1, Len(din[s]))
\* the contents of session s's pending buffer
Pending(s) == IF ctx[s].remain_buf = NULL THEN <<>> ELSE SubSeq(heap[ctx[s].remain_buf].data, 1, ctx[s].remain_len)
\* the message the engine digests for a final that ended the data at entry dataEnd
\* of the log: the words before it, the last one cut to the NBLW valid bits
DeliveredOf(log, b, dataEnd) ==
    LET all == WordBytes(log, b + 1, dataEnd)
        nblw == log[dataEnd + 1][2]
    IN  IF nblw = 0 THEN all ELSE SubSeq(all, 1, Len(all) - U32 + (nblw \div 8))
Delivered(s, dataEnd) == DeliveredOf(din[s], base[s], dataEnd)

(* C3: after init, whatever the lengths of the update calls and however    *)
(* the FIFO status reads (no flag stuck), the bytes written to data-in     *)
(* followed by the pending bytes are the concatenation of the update       *)
(* inputs, and a successful final delivers exactly that input.             *)
C3_ChunkInvariance ==
    \A s \in Sessions :
        /\ (life[s] \in {"Initialized", "Streaming"} /\ ~faulted[s]) => Fed(s) \o Pending(s) = input[s]
        /\ (life[s] = "Finalized" /\ ~faulted[s] /\ ret[s].op = "final" /\ ret[s].res = TEE_SUCCESS /\ ret[s].life0 # "Finalized") =>
               Delivered(s, ret[s].dataEnd) = input[s]

\* the same, for the sessions whose calls since init all succeeded
C3_WhenNoCallFailed ==
    \A s \in Sessions :
        /\ (life[s] \in {"Initialized", "Streaming"} /\ clean[s]) => Fed(s) \o Pending(s) = input[s]
        /\ (life[s] = "Finalized" /\ clean[s] /\ ret[s].op = "final" /\ ret[s].res = TEE_SUCCESS /\ ret[s].life0 # "Finalized") =>
               Delivered(s, ret[s].dataEnd) = input[s]

\* SHA-256: after init and update(133), which leaves 65 bytes pending with the
\* threshold at 64, update(1) pads the pending bytes with 3 bytes of a 1-byte buffer
C3_FailingInput ==
    /\ ctx[1].algo = "SHA256" /\ ctx[1].mode = STM32_HASH_MODE /\ ~faulted[1]
    /\ ret[1].op = "update" /\ ret[1].dinis = "block" /\ ret[1].len0 = ShortLen
    /\ ret[1].pend0 = SHA256_BLOCK_SIZE + 1 /\ ret[1].q0 = SHA256_BLOCK_SIZE
    /\ Len(input[1]) = 2 * SHA256_BLOCK_SIZE + 5 + ShortLen
    /\ ret[1].align = 3 /\ ret[1].overrun /\ ret[1].res # TEE_SUCCESS
    /\ Fed(1) \o Pending(1) # input[1]

\* session s is between a successful init and its final, and no call of it failed
Streaming(s) == life[s] \in {"Initialized", "Streaming"} /\ clean[s]

Returns(s) == ncalls'[s] = ncalls[s] + 1 /\ ret'[s].op \in {"init", "update", "final"}

(* C5: a successful init sets the threshold to block_size + 4; the first   *)
(* update that writes data to the FIFO ends with it at block_size; from    *)
(* then on updates and finals leave it at block_size; an update that       *)
(* writes nothing leaves it as it was.                                     *)
C5_ThresholdDowngrade ==
    [][\A s \in Sessions :
         Returns(s) =>
             /\ (ret'[s].op = "init" /\ ret'[s].res = TEE_SUCCESS) => ctx'[s].queue_size = ctx[s].block_size + U32
             /\ (Streaming(s) /\ ret'[s].op = "update" /\ ret'[s].res = TEE_SUCCESS /\ ret'[s].nw > 0)
                    => ctx'[s].queue_size = ctx[s].block_size
             /\ (Streaming(s) /\ ret'[s].op = "update" /\ ret'[s].res = TEE_SUCCESS /\ ret'[s].nw = 0)
                    => ctx'[s].queue_size = ctx[s].queue_size
             /\ (Streaming(s) /\ ret'[s].op = "final") => ctx'[s].queue_size = ctx[s].queue_size]_vars

\* SHA-256: init, update(67), update(1): the second update wrote the 68 pending
\* bytes to the FIFO and left the threshold at 68
C5_FailingInput ==
    /\ ctx[1].algo = "SHA256" /\ ctx[1].mode = STM32_HASH_MODE /\ Streaming(1)
    /\ ret[1].op = "update" /\ ret[1].res = TEE_SUCCESS /\ ret[1].dinis = "block"
    /\ ret[1].pend0 = SHA256_BLOCK_SIZE + 3 /\ ret[1].len0 = 1 /\ ret[1].nw = 17
    /\ ctx[1].queue_size = SHA256_BLOCK_SIZE + U32

(* C6: an update with data, or a final, on a session that was allocated    *)
(* and never initialized, or that was finalized, returns                   *)
(* TEE_ERROR_BAD_STATE and writes no word to the data-in register.         *)
C6_Lifecycle ==
    \A s \in Sessions :
        ((ret[s].op = "final" \/ (ret[s].op = "update" /\ ret[s].locked)) /\ ret[s].life0 \in {"Allocated", "Finalized"})
            => (ret[s].res = TEE_ERROR_BAD_STATE /\ ret[s].nw = 0)

\* SHA-256: alloc, then final on the session that was never initialized, which
\* returns TEE_SUCCESS with a digest
C6_FailingInput ==
    /\ ctx[1].algo = "SHA256" /\ ctx[1].mode = STM32_HASH_MODE
    /\ ret[1].op = "final" /\ ret[1].life0 = "Allocated" /\ ncalls[1] = 1
    /\ ret[1].res = TEE_SUCCESS /\ Len(ret[1].digest) = SHA256_DIGEST_U32

\* the algorithms each platform's capability set lacks
Unsupported(platform) ==
    IF platform = mp13_compat THEN {"MD5"}
    ELSE {"SHA384", "SHA512", "SHA3_224", "SHA3_256", "SHA3_384", "SHA3_512"}

(* C7: stm32_hash_alloc for an algorithm the probed capability set lacks,  *)
(* or for an unknown algorithm, returns TEE_ERROR_NOT_IMPLEMENTED (and for *)
(* no other algorithm of a probed device); no allocation accesses a        *)
(* register, takes the mutex or enables the clock.                         *)
C7_AllocUnsupported ==
    /\ \A s \in Sessions :
           (ret[s].op = "alloc" /\ probed) =>
               /\ ret[s].res = TEE_ERROR_NOT_IMPLEMENTED <=> (ret[s].algo \notin KnownAlgos \/ ret[s].algo \in Unsupported(caps))
               /\ ret[s].res = TEE_ERROR_NOT_IMPLEMENTED => (ctx[s].remain_buf = NULL /\ ctx[s].csr = NULL)
    /\ \A s \in Sessions : ret[s].io = 0 /\ ~ret[s].locked
    /\ hw = HwReset /\ mutex = 0 /\ clk = 0 /\ ~unguarded
    /\ \A b \in HeapIds : heap[b].st # "unused" => \E s \in Sessions : ret[s].res # TEE_ERROR_NOT_IMPLEMENTED

\* MD5 was refused on the mp13 set while the other session got its SHA-256 context
C7_Witness ==
    /\ probed /\ caps = mp13_compat
    /\ ret[1].op = "alloc" /\ ret[1].algo = "MD5" /\ ret[1].res = TEE_ERROR_NOT_IMPLEMENTED
    /\ ret[2].op = "alloc" /\ ret[2].algo = "SHA256" /\ ret[2].res = TEE_SUCCESS

\* everything of session t that lives in storage: its context, pending buffer and snapshot
StoreOf(c, hp, t) ==
    [c |-> c[t],
     buf |-> IF c[t].remain_buf = NULL THEN <<>> ELSE hp[c[t].remain_buf].data,
     snap |-> IF c[t].csr = NULL THEN <<>> ELSE hp[c[t].csr].data]
Store(t) == StoreOf(ctx, heap, t)
Related(s, t) == <<s, t>> \in forked \/ <<t, s>> \in forked

(* C8: once one of two sessions was copied into the other, the two keep    *)
(* distinct pending buffers and snapshot arrays, and an init, update or    *)
(* final of one changes nothing of the other's context, pending buffer or  *)
(* snapshot.                                                               *)
C8_ForkIndependent ==
    [][\A s \in Sessions, t \in Sessions :
         (s # t /\ Related(s, t)) =>
             /\ ctx[s].remain_buf # ctx[t].remain_buf /\ ctx[s].csr # ctx[t].csr
             /\ ctx[s].remain_buf # ctx[t].csr
             /\ Returns(s) => StoreOf(ctx', heap', t) = Store(t)]_vars

\* after the copy the source streamed more data and the two now differ
C8_Witness ==
    \E d \in Sessions, s \in Sessions :
        /\ <<d, s>> \in forked /\ ret[d].op = "deep_copy" /\ ret[d].res = TEE_SUCCESS
        /\ ret[s].op = "update" /\ ret[s].res = TEE_SUCCESS /\ ret[s].nw > 0
        /\ ctx[d].remain_len > 0 /\ Store(d).snap # Store(s).snap

\* an engine that raises DINIS at block boundaries and never times out
Quiet == [dinis |-> "block", stall |-> 0, busyAt |-> 0, saveBusy |-> FALSE, fifoEmpty |-> TRUE, dcis |-> TRUE]

\* what a call that ended as r fed the engine and left in the session
Outcome(r) ==
    [res |-> r.res, log |-> r.log, nw |-> r.nw, digest |-> r.digest, c |-> [r.c EXCEPT !.remain_buf = NULL, !.csr = NULL],
     pending |-> IF r.c.remain_buf = NULL THEN <<>> ELSE SubSeq(r.heap[r.c.remain_buf].data, 1, r.c.remain_len),
     snap |-> IF r.c.csr = NULL THEN <<>> ELSE r.heap[r.c.csr].data]

\* what a final that ended as r gave the engine: the message up to the valid
\* bytes of its last word, then the DCAL and the key words
FinalOutcome(r) ==
    [res |-> r.res, nw |-> r.nw,
     message |-> IF r.res = TEE_SUCCESS THEN DeliveredOf(r.log, r.base, r.dataEnd) ELSE <<>>,
     tail |-> IF r.res = TEE_SUCCESS THEN SubSeq(r.log, r.dataEnd + 1, Len(r.log)) ELSE <<>>]

(* C9: a successful deep_copy(dst, src) leaves dst with src's algorithm,   *)
(* mode, sizes, save mode, threshold, pending length, the pending bytes up *)
(* to that length, CR, IMR, STR and the nb_reg + hmac_nb_reg snapshot      *)
(* words, and leaves src as it was; the same update, and the same final,   *)
(* applied to dst and to src then give the engine the same data: the       *)
(* update writes the same words and ends with the same result, pending     *)
(* bytes and snapshot, the final delivers the same message (the last word  *)
(* up to its valid bytes) followed by the same DCAL and key words.         *)
C9_CopyEqual ==
    [][\A d \in Sessions :
         (ncalls'[d] = ncalls[d] + 1 /\ ret'[d].op = "deep_copy" /\ ret'[d].res = TEE_SUCCESS) =>
             LET s == ret'[d].src
                 n == get_save_registers(ctx[s]).nb_reg + get_save_registers(ctx[s]).hmac_nb_reg
             IN  /\ \A f \in {"dev", "algo", "mode", "digest_u32", "block_size", "save_mode", "queue_size", "remain_len", "cr", "imr", "str"} :
                        ctx'[d][f] = ctx[s][f]
                 /\ SubSeq(StoreOf(ctx', heap', d).buf, 1, ctx[s].remain_len) = SubSeq(Store(s).buf, 1, ctx[s].remain_len)
                 /\ SubSeq(StoreOf(ctx', heap', d).snap, 1, n) = SubSeq(Store(s).snap, 1, n)
                 /\ Len(StoreOf(ctx', heap', d).snap) = n
                 /\ StoreOf(ctx', heap', s) = Store(s)
                 /\ ctx'[d].remain_buf = ctx[d].remain_buf /\ ctx'[d].csr = ctx[d].csr
                 /\ \A len \in (IF Streaming(s) /\ ctx[s].remain_len > 0 THEN {ctx[s].block_size + 3} ELSE {}) :
                        Outcome(stm32_hash_update(MachineOf(hw', ctx'[d], heap', din'[d], base'[d], Quiet, Data(s, Len(input[s]), len))))
                            = Outcome(stm32_hash_update(MachineOf(hw', ctx'[s], heap', din'[s], base'[s], Quiet, Data(s, Len(input[s]), len))))
                 /\ \A k \in (IF Streaming(s) THEN {ShortKey} ELSE {}) :
                        FinalOutcome(stm32_hash_final(MachineOf(hw', ctx'[d], heap', din'[d], base'[d], Quiet, <<>>), Key(s, k)))
                            = FinalOutcome(stm32_hash_final(MachineOf(hw', ctx'[s], heap', din'[s], base'[s], Quiet, <<>>), Key(s, k)))]_vars

\* a copy of a session that holds pending bytes and a snapshot of streamed data
C9_Witness ==
    \E d \in Sessions :
        /\ ret[d].op = "deep_copy" /\ ret[d].res = TEE_SUCCESS
        /\ ctx[d].remain_len > 0 /\ Pending(d) = Pending(ret[d].src)
        /\ Len(din[d]) > base[d] /\ Store(d).snap = Store(ret[d].src).snap
        /\ ctx[d].queue_size = ctx[d].block_size /\ Streaming(d)

(* C10: deep_copy returns TEE_ERROR_BAD_PARAMETERS exactly when an         *)
(* argument is null or the two contexts differ in mode or algorithm, and   *)
(* then leaves every context and every storage block as it was.            *)
C10_CopyRefused ==
    [][\A d \in Sessions :
         (ncalls'[d] = ncalls[d] + 1 /\ ret'[d].op \in {"deep_copy", "deep_copy_null"}) =>
             LET s == ret'[d].src
                 refused == s = 0 \/ ctx[d].mode # ctx[s].mode \/ ctx[d].algo # ctx[s].algo
             IN  /\ refused <=> ret'[d].res = TEE_ERROR_BAD_PARAMETERS
                 /\ refused => (ctx' = ctx /\ heap' = heap /\ hw' = hw)]_vars

\* a copy between a SHA-256 HMAC session with pending data and a session of
\* another algorithm or mode was refused
C10_Witness ==
    \E d \in Sessions :
        /\ ret[d].op = "deep_copy" /\ ret[d].res = TEE_ERROR_BAD_PARAMETERS
        /\ ctx[d].algo # ctx[ret[d].src].algo /\ ctx[ret[d].src].remain_len > 0

\* the call session s, which holds an allocated context, made last ran between
\* mutex_lock and the exit label with the busy flag stuck from its first wait on
StuckBusy(s) == ret[s].locked /\ ret[s].life0 # "None" /\ ret[s].env.busyAt = 1
\* ... with the digest-complete flag never set
StuckDcis(s) == ret[s].locked /\ ret[s].life0 # "None" /\ ~ret[s].env.dcis

(* C11 as stated: with the busy flag stuck every update with data and      *)
(* every final that writes to the FIFO, and with the digest-complete flag  *)
(* never set every final, returns TEE_ERROR_BUSY.                          *)
C11_StuckFlagFails ==
    \A s \in Sessions :
        /\ (ret[s].op = "update" /\ StuckBusy(s)) => ret[s].res = TEE_ERROR_BUSY
        /\ (ret[s].op = "final" /\ StuckBusy(s) /\ (ret[s].pend0 > 0 \/ ret[s].mode = STM32_HMAC_MODE)) => ret[s].res = TEE_ERROR_BUSY
        /\ (ret[s].op = "final" /\ StuckDcis(s)) => ret[s].res = TEE_ERROR_BUSY

(* C11 as the code has it: with the busy flag stuck, an update whose data  *)
(* fits below the threshold with the pending bytes only buffers it and     *)
(* returns TEE_SUCCESS without a FIFO write; every other update, and every *)
(* final with pending bytes or an HMAC key, returns TEE_ERROR_BUSY at its  *)
(* first FIFO write; with the digest-complete flag never set every final   *)
(* returns TEE_ERROR_BUSY with no digest; none of these calls runs on.     *)
C11_StuckFlagBounded ==
    \A s \in Sessions :
        /\ (ret[s].op = "update" /\ StuckBusy(s)) =>
               /\ ~ret[s].runaway /\ ret[s].res # ABORTED
               /\ IF ret[s].pend0 + ret[s].len0 < ret[s].q0
                  THEN ret[s].res = TEE_SUCCESS /\ ret[s].nw = 0 /\ ctx[s].remain_len = ret[s].pend0 + ret[s].len0
                  ELSE ret[s].res = TEE_ERROR_BUSY /\ ret[s].nw = 1
        /\ (ret[s].op = "final" /\ StuckBusy(s) /\ (ret[s].pend0 > 0 \/ ret[s].mode = STM32_HMAC_MODE)) =>
               ret[s].res = TEE_ERROR_BUSY /\ ret[s].nw = 1 /\ ret[s].digest = <<>>
        /\ (ret[s].op = "final" /\ StuckDcis(s)) =>
               ret[s].res = TEE_ERROR_BUSY /\ ret[s].digest = <<>> /\ ~ret[s].runaway

\* with the busy flag stuck, an update of an initialized session buffered its
\* data and returned TEE_SUCCESS
C11_Witness ==
    \E s \in Sessions :
        /\ ret[s].op = "update" /\ StuckBusy(s) /\ ret[s].life0 = "Initialized"
        /\ ret[s].len0 > 0 /\ ret[s].res = TEE_SUCCESS /\ ctx[s].remain_len = ret[s].len0

(* C12: every init, update or final that took the mutex disables the clock *)
(* and releases the mutex when it returns, whatever its result, and no     *)
(* call stays between mutex_lock and the exit label for ever (panic marks  *)
(* a call that does), so that a caller waiting for the mutex gets it.      *)
C12_ReleaseOnEveryPath ==
    /\ [][\A s \in Sessions :
            (pc[s] = "held" /\ pc'[s] # "held") =>
                /\ pc'[s] = "idle" /\ ret'[s].locked /\ ret'[s].op = call[s].op
                /\ mutex = s /\ mutex' = 0
                /\ clk = 1 /\ clk' = 0]_vars
    /\ [](\A s \in Sessions : pc[s] = "held" => ~panic)

\* the part of C12 about the calls that return: each leaves through the exit
\* label, on success and on every error
C12_ReleaseWhenReturning ==
    [][\A s \in Sessions :
         (pc[s] = "held" /\ pc'[s] # "held") =>
             /\ pc'[s] = "idle" /\ ret'[s].locked /\ ret'[s].op = call[s].op
             /\ mutex = s /\ mutex' = 0
             /\ clk = 1 /\ clk' = 0]_vars

\* SHA-256: alloc, then update(133 bytes) with no init: the threshold is 0, the
\* streaming loop never ends, and the other session waits for the mutex
C12_FailingInput ==
    \E s \in Sessions, t \in Sessions :
        /\ s # t /\ panic /\ pc[s] = "held" /\ mutex = s /\ clk = 1
        /\ ret[s].op = "update" /\ ret[s].life0 = "Allocated" /\ ret[s].q0 = 0 /\ ret[s].runaway
        /\ pc[t] = "wait"

\* ---------------------------------------------------------------- C13
\* session s returns from stm32_hash_free in this step
Freed(s) == ncalls'[s] = ncalls[s] + 1 /\ ret'[s].op \in {"free", "free_null"}

\* the blocks a context points to
Blocks(c) == {c.remain_buf, c.csr} \ {NULL}

\* C13: free is idempotent: free on a null context changes nothing, a second
\* free of a context releases nothing further, and no block is ever
\* released twice
C13_FreeIdempotent ==
    /\ [][\A s \in Sessions :
            /\ (Freed(s) /\ ret'[s].op = "free_null") => heap' = heap
            /\ (Freed(s) /\ ret'[s].op = "free" /\ \A b \in Blocks(ctx[s]) : heap[b].st = "freed") => heap' = heap]_vars
    /\ [](\A b \in HeapIds : heap[b].st # "twice")

\* the first free of a context releases its two blocks and nothing else, and
\* free on a null context changes nothing
C13_FirstFree ==
    [][\A s \in Sessions :
            /\ (Freed(s) /\ ret'[s].op = "free_null") => heap' = heap
            /\ (Freed(s) /\ ret'[s].op = "free" /\ \A b \in Blocks(ctx[s]) : heap[b].st = "live") =>
                    /\ \A b \in Blocks(ctx[s]) : heap'[b].st = "freed"
                    /\ \A b \in HeapIds \ Blocks(ctx[s]) : heap'[b] = heap[b]
                    /\ ctx' = ctx]_vars

\* a context allocated with success and freed twice: both of its blocks have
\* been released twice
C13_FailingInput ==
    \E s \in Sessions :
        /\ ret[s].op = "free" /\ ret[s].life0 = "Allocated" /\ ncalls[s] = 2
        /\ Cardinality(Blocks(ctx[s])) = 2
        /\ \A b \in Blocks(ctx[s]) : heap[b].st = "twice"

\* ---------------------------------------------------------------- C14
\* session s returns from stm32_hash_init in this step, called without a key
InitNoKey(s) == Returns(s) /\ ret'[s].op = "init" /\ ret'[s].key = 0

\* the call of session s in this step took no lock and changed nothing of the
\* engine and of the sessions
Untouched(s) ==
    /\ ~ret'[s].locked /\ ret'[s].io = 0
    /\ ctx' = ctx /\ heap' = heap /\ hw' = hw /\ saved' = saved
    /\ mutex' = mutex /\ clk' = clk /\ ~unguarded'

\* C14: init in HMAC mode with a null key or a key length of 0 fails with
\* BadState before it takes the mutex and leaves the pending buffer, the
\* threshold, the snapshot and the registers unchanged; in Hash mode an absent
\* key is accepted
C14_InitNoKeyBadState ==
    [][\A s \in Sessions :
            /\ (InitNoKey(s) /\ ret'[s].mode = STM32_HMAC_MODE) => (ret'[s].res = TEE_ERROR_BAD_STATE /\ Untouched(s))
            /\ (InitNoKey(s) /\ ret'[s].mode = STM32_HASH_MODE) => ret'[s].locked]_vars

\* C14 as the code has it: the result is TEE_ERROR_BAD_PARAMETERS; an absent
\* key in Hash mode goes on to the engine, and on an allocated session it
\* succeeds when the flags settle
C14_InitNoKeyBadParameters ==
    [][\A s \in Sessions :
            /\ (InitNoKey(s) /\ ret'[s].mode = STM32_HMAC_MODE) => (ret'[s].res = TEE_ERROR_BAD_PARAMETERS /\ Untouched(s))
            /\ (InitNoKey(s) /\ ret'[s].mode = STM32_HASH_MODE) =>
                    /\ ret'[s].locked
                    /\ (ret'[s].life0 # "None" /\ ~Faulty(ret'[s].env)) => ret'[s].res = TEE_SUCCESS]_vars

\* an HMAC session with pending bytes whose init without a key was refused
C14_Witness ==
    \E s \in Sessions :
        /\ ret[s].op = "init" /\ ret[s].mode = STM32_HMAC_MODE /\ ret[s].key = 0
        /\ ret[s].res = TEE_ERROR_BAD_PARAMETERS /\ ~ret[s].locked
        /\ ret[s].life0 = "Streaming" /\ ret[s].pend0 > 0 /\ ctx[s].remain_len = ret[s].pend0

\* ---------------------------------------------------------------- C15
\* C15: right after a successful allocate, before any init, the threshold of
\* the session is block_size + 4
C15_ThresholdAtAlloc ==
    \A s \in Sessions :
        (ret[s].op = "alloc" /\ ret[s].res = TEE_SUCCESS) => ctx[s].queue_size = ctx[s].block_size + U32

\* what stm32_hash_alloc does leave: the sizes of the algorithm and the two
\* blocks, with the threshold and the pending length as the caller handed them in
C15_AllocLeavesThreshold ==
    \A s \in Sessions :
        (ret[s].op = "alloc" /\ ret[s].res = TEE_SUCCESS) =>
            /\ ctx[s].queue_size = ZeroCtx.queue_size /\ ctx[s].remain_len = ZeroCtx.remain_len
            /\ ctx[s].block_size = AlgoBlockSize(ret[s].algo)
            /\ Len(heap[ctx[s].remain_buf].data) = ctx[s].block_size + U32

\* a SHA-256 session just allocated: block_size 64, threshold 0
C15_FailingInput ==
    \E s \in Sessions :
        /\ ret[s].op = "alloc" /\ ret[s].res = TEE_SUCCESS /\ ret[s].algo = "SHA256"
        /\ life[s] = "Allocated" /\ ctx[s].block_size = 64 /\ ctx[s].queue_size = 0

\* ---------------------------------------------------------------- C16
\* the number of words of the snapshot array of context c, as allocate,
\* save_context, restore_context and deep_copy compute it
SnapshotWords(c) == get_save_registers(c).nb_reg + get_save_registers(c).hmac_nb_reg

\* the indices of c->csr that the loops of save_context and restore_context touch
SnapshotIndices(c) == (0..(get_save_registers(c).nb_reg - 1)) \cup {i + get_save_registers(c).nb_reg : i \in 0..(get_save_registers(c).hmac_nb_reg - 1)}

\* the counts the catalogue gives for an algorithm
CatalogCounts(algo) ==
    IF algo \in {"MD5", "SHA1", "SHA224", "SHA256"} THEN <<22, 16>>
    ELSE IF algo \in {"SHA384", "SHA512"} THEN <<91, 12>>
    ELSE <<72, 72>>

\* C16: the snapshot array of every allocated session holds exactly
\* nb_reg + hmac_nb_reg words, (22,16) for MD5, SHA1, SHA-224 and SHA-256,
\* (91,12) for SHA-384 and SHA-512, (72,72) for the SHA3 variants, the HMAC
\* count being 0 in Hash mode; allocate, save, restore and deep_copy use that
\* same count, nothing after allocate changes it, and no index at or beyond it
\* is accessed
C16_SnapshotSize ==
    /\ [](\A s \in Sessions : life[s] # "None" =>
            LET c == ctx[s]
                n == Len(heap[c.csr].data)
            IN  /\ heap[c.csr].st = "live"
                /\ n = SnapshotWords(c)
                /\ n = CatalogCounts(c.algo)[1] + (IF c.mode = STM32_HMAC_MODE THEN CatalogCounts(c.algo)[2] ELSE 0)
                /\ \A i \in SnapshotIndices(c) : i < n)
    /\ [][\A s \in Sessions : life[s] # "None" =>
            /\ ctx'[s].csr = ctx[s].csr
            /\ SnapshotWords(ctx'[s]) = SnapshotWords(ctx[s])
            /\ Len(heap'[ctx[s].csr].data) = Len(heap[ctx[s].csr].data)]_vars

\* an HMAC SHA3 session copied from another one after its init, then
\* finalized: its snapshot of 144 words was written by deep_copy and read
\* by restore_context
C16_Witness ==
    /\ ret[2].op = "final" /\ ret[2].res = TEE_SUCCESS /\ <<2, 1>> \in forked
    /\ ctx[2].algo = "SHA3_256" /\ ctx[2].mode = STM32_HMAC_MODE
    /\ ret[2].loaded.valid /\ Len(ret[2].loaded.csr) = 144
    /\ Len(heap[ctx[2].csr].data) = 144

\* ---------------------------------------------------------------- C17
\* the words write_key gives the engine for a key: whole words, then the
\* rest of the key in a word padded with zeroes
KeyWords(key) == [i \in 1..ROUNDUP_DIV(Len(key), U32) |-> [k \in 1..U32 |-> IF U32 * (i - 1) + k <= Len(key) THEN key[U32 * (i - 1) + k] ELSE 0]]

\* the DCAL trigger as the engine's input records it, with the NBLW it finds
Dcal(nbytes) == <<-1, 8 * (nbytes % U32)>>

\* what a final of context c, with the pending bytes found in heap hp and a key
\* of keylen bytes, gives the engine after the input log it finds
FinalInput(s, c, hp, log, keylen) ==
    log \o [i \in 1..ROUNDUP_DIV(c.remain_len, U32) |-> BufWord(hp[c.remain_buf].data, i - 1)]
        \o <<Dcal(c.remain_len)>>
        \o (IF c.mode = STM32_HMAC_MODE THEN KeyWords(Key(s, keylen)) \o <<Dcal(keylen)>> ELSE <<>>)

\* session s returns in this step from a final that went to the engine
FinalReturns(s) == Returns(s) /\ ret'[s].op = "final" /\ ret'[s].locked /\ ret'[s].life0 # "None"

(* C17: final restores the snapshot, writes the pending words, programs    *)
(* NBLW, sets DCAL, in HMAC mode writes the key again, waits for the       *)
(* digest-complete flag and only then reads digest_u32 words; it never     *)
(* changes the saved snapshot, and on a digest timeout it writes nothing   *)
(* to the output.                                                          *)
C17_FinalOrder ==
    [][\A s \in Sessions : FinalReturns(s) =>
            LET r == ret'[s]
                full == FinalInput(s, ctx[s], heap, din[s], r.key)
            IN  /\ r.loaded = CtxView(heap, ctx[s])
                /\ CtxView(heap', ctx'[s]) = CtxView(heap, ctx[s])
                /\ Len(din'[s]) <= Len(full) /\ din'[s] = SubSeq(full, 1, Len(din'[s]))
                /\ r.res = TEE_SUCCESS => (din'[s] = full /\ r.env.dcis /\ Len(r.digest) = ctx[s].digest_u32)
                /\ r.digest # <<>> => r.res = TEE_SUCCESS
                /\ ~r.env.dcis => (din'[s] = full /\ r.res = TEE_ERROR_BUSY /\ r.digest = <<>>)]_vars

\* an HMAC session with pending bytes whose final ran into a digest timeout,
\* after the pending words, DCAL and the key had been written
C17_Witness ==
    \E s \in Sessions :
        /\ ret[s].op = "final" /\ ret[s].locked /\ ret[s].mode = STM32_HMAC_MODE
        /\ ret[s].life0 = "Streaming" /\ ret[s].pend0 > 0
        /\ ~ret[s].env.dcis /\ ret[s].res = TEE_ERROR_BUSY /\ ret[s].digest = <<>>
        /\ ret[s].nw = ROUNDUP_DIV(ret[s].pend0, U32) + ROUNDUP_DIV(ret[s].key, U32)

\* ---------------------------------------------------------------- C18
\* session s returns in this step from an update called with a length of 0
\* or with a null buffer
EmptyUpdate(s) == Returns(s) /\ ret'[s].op = "update" /\ (ret'[s].len0 = 0 \/ ret'[s].nullbuf)

\* C18: an update with empty data, a length of 0 or a null buffer, returns
\* success without the mutex, the clock or any register access, and leaves
\* the pending buffer, its length, the threshold and the snapshot unchanged
C18_EmptyUpdateNoOp ==
    [][\A s \in Sessions : EmptyUpdate(s) => (ret'[s].res = TEE_SUCCESS /\ Untouched(s) /\ din' = din /\ life' = life)]_vars

\* a streaming session with pending bytes, after an update of one byte
\* through a null buffer
C18_Witness ==
    \E s \in Sessions :
        /\ ret[s].op = "update" /\ ret[s].nullbuf /\ ret[s].len0 = ShortLen /\ ret[s].res = TEE_SUCCESS /\ ~ret[s].locked
        /\ ret[s].life0 = "Streaming" /\ ret[s].pend0 > 0 /\ ctx[s].remain_len = ret[s].pend0

\* ---------------------------------------------------------------- C19
\* a session just allocated with the algorithm and mode of context c, in a
\* heap of its own
FreshSession(c) == stm32_hash_alloc(ZeroCtx, c.mode, c.algo, TRUE, caps, [b \in HeapIds |-> [st |-> "unused", data |-> <<>>]], "none")

\* stm32_hash_init of that fresh session on engine h
FreshInit(h, c, key, env) == stm32_hash_init(MachineOf(h, FreshSession(c).c, FreshSession(c).heap, <<>>, 0, env, <<>>), key)

\* session s returns in this step from a successful init, its call before
\* having been an update or a final that failed with a timeout
Recovers(s) ==
    /\ Returns(s) /\ ret'[s].op = "init" /\ ret'[s].res = TEE_SUCCESS
    /\ ret[s].op \in {"update", "final"} /\ ret[s].locked /\ ret[s].res = TEE_ERROR_BUSY

(* C19: a session whose update or final failed with a timeout is recovered *)
(* by init: after a successful init it is in exactly the state that a      *)
(* successful init of a freshly allocated session with the same algorithm, *)
(* mode and key gives: pending length 0, pending buffer all zero,          *)
(* threshold block_size + 4, snapshot taken from the freshly programmed    *)
(* engine.                                                                 *)
C19_InitRecovers ==
    [][\A s \in Sessions : Recovers(s) =>
            \E f \in {FreshInit(hw, ctx[s], Key(s, ret'[s].key), ret'[s].env)} :
                /\ f.res = TEE_SUCCESS
                /\ ctx'[s] = f.c
                /\ StoreOf(ctx', heap', s) = [c |-> f.c, buf |-> f.heap[f.c.remain_buf].data, snap |-> f.heap[f.c.csr].data]
                /\ hw' = HwSettle(f.hw)
                /\ din'[s] = f.log
                /\ ctx'[s].remain_len = 0
                /\ ctx'[s].queue_size = ctx[s].block_size + U32
                /\ heap'[ctx[s].remain_buf].data = ZeroSeq(ctx[s].block_size + U32)
                /\ CtxView(heap', ctx'[s]) = HwView(hw', ctx'[s])
                /\ life'[s] = "Initialized" /\ clean'[s]]_vars

\* a session initialized with success right after an update that timed out
\* with bytes in the pending buffer and the threshold at block_size
C19_Witness ==
    \E s \in Sessions :
        /\ ret[s].op = "init" /\ ret[s].res = TEE_SUCCESS /\ ret[s].locked
        /\ ret[s].before = [op |-> "update", res |-> TEE_ERROR_BUSY]
        /\ ret[s].pend0 > 0 /\ ret[s].q0 = ctx[s].block_size
        /\ ctx[s].remain_len = 0 /\ ctx[s].queue_size = ctx[s].block_size + U32

\* ---------------------------------------------------------------- C20
\* session s returns in this step from an update that went through its
\* streaming loop reading the caller's data only
Streams(s) ==
    /\ Returns(s) /\ ret'[s].op = "update" /\ ret'[s].locked /\ ret'[s].flushed
    /\ ret'[s].life0 # "None" /\ ~ret'[s].overrun

\* the loop of that update at its iteration k (from 0): the length left, the
\* bytes the engine has been given since hw_init, the reads of the status
\* register made so far, and what the read of DINIS returns there
LenAt(r, k) == r.streamLen - U32 * k
WrittenAt(r, log, b, k) == U32 * (Len(log) - b) - U32 * (r.streamed - k)
ReadsAt(r, k) == Cardinality({j \in 0..(k - 1) : LenAt(r, j) < r.q0})
FlagAt(r, c, log, b, k) == DinisAt(r.env, c, WrittenAt(r, log, b, k), ReadsAt(r, k))

\* C20: in the streaming step of update a further word is written exactly
\* while the remaining length is >= the threshold or the DINIS flag is set;
\* streaming stops as soon as the length is below the threshold and the flag
\* is not set
C20_StreamWhileFlagSet ==
    [][\A s \in Sessions : Streams(s) =>
            LET r == ret'[s]
                Goes(k) == LenAt(r, k) >= r.q0 \/ FlagAt(r, ctx[s], din'[s], base[s], k)
            IN  /\ \A k \in 0..(r.streamed - 1) : Goes(k)
                /\ r.res = TEE_SUCCESS => ~Goes(r.streamed)]_vars

\* C20 with the flag as the code reads it: a further word is written exactly
\* while the remaining length is >= the threshold or DINIS is not set;
\* streaming stops as soon as the length is below the threshold and DINIS is set
C20_StreamWhileFlagClear ==
    [][\A s \in Sessions : Streams(s) =>
            LET r == ret'[s]
                Goes(k) == LenAt(r, k) >= r.q0 \/ ~FlagAt(r, ctx[s], din'[s], base[s], k)
            IN  /\ \A k \in 0..(r.streamed - 1) : Goes(k)
                /\ r.res = TEE_SUCCESS => ~Goes(r.streamed)]_vars

\* an update that went on writing words with the length left below the
\* threshold, DINIS not being set, and stopped with success
C20_Witness ==
    \E s \in Sessions :
        /\ ret[s].op = "update" /\ ret[s].locked /\ ret[s].flushed /\ ret[s].res = TEE_SUCCESS /\ ~ret[s].overrun
        /\ ret[s].life0 = "Streaming" /\ ret[s].env.dinis = "block"
        /\ ret[s].streamed > 1 /\ LenAt(ret[s], ret[s].streamed - 1) < ret[s].q0
        /\ ret[s].reads > 1

\* ---------------------------------------------------------------- C21
\* session s returns in this step from a final that got as far as the DCAL of
\* the message
FinalTriggers(s) == FinalReturns(s) /\ Len(din'[s]) > Len(din[s]) + ROUNDUP_DIV(ctx[s].remain_len, U32)

\* the NBLW field as the engine found it at that DCAL, and the words written
\* before it
NblwAtDcal(s, log, log2, c) == log2[Len(log) + ROUNDUP_DIV(c.remain_len, U32) + 1][2]
WordsBeforeDcal(log, log2) == Cardinality({i \in (Len(log) + 1)..Len(log2) : log2[i][1] # -1 /\ \A j \in (Len(log) + 1)..i : log2[j][1] # -1})

\* C21: in final the value programmed into NBLW (bits 0-4 of STR) is the
\* number of trailing bytes of the last pending word, pending length mod 4,
\* 0 when the pending buffer was empty or word-aligned; the number of words
\* flushed is ceil(pending length / 4)
C21_NblwInBytes ==
    [][\A s \in Sessions : FinalTriggers(s) =>
            /\ din'[s][Len(din[s]) + ROUNDUP_DIV(ctx[s].remain_len, U32) + 1][1] = -1
            /\ NblwAtDcal(s, din[s], din'[s], ctx[s]) = ctx[s].remain_len % U32
            /\ WordsBeforeDcal(din[s], din'[s]) = ROUNDUP_DIV(ctx[s].remain_len, U32)]_vars

\* C21 with the unit the code uses: NBLW is the number of valid bits of the
\* last word, 8 * (pending length mod 4)
C21_NblwInBits ==
    [][\A s \in Sessions : FinalTriggers(s) =>
            /\ din'[s][Len(din[s]) + ROUNDUP_DIV(ctx[s].remain_len, U32) + 1][1] = -1
            /\ NblwAtDcal(s, din[s], din'[s], ctx[s]) = 8 * (ctx[s].remain_len % U32)
            /\ WordsBeforeDcal(din[s], din'[s]) = ROUNDUP_DIV(ctx[s].remain_len, U32)]_vars

\* a Hash session finalized with 65 pending bytes: 17 words flushed, NBLW 8
C21_Witness ==
    \E s \in Sessions :
        /\ ret[s].op = "final" /\ ret[s].res = TEE_SUCCESS /\ ret[s].mode = STM32_HASH_MODE
        /\ ret[s].life0 = "Streaming" /\ ret[s].pend0 = 65 /\ ret[s].nw = 17
        /\ din[s][Len(din[s])] = <<-1, 8>>

\* ---------------------------------------------------------------- C22
\* the encodings of the algorithms in CR, lines 41-54
AlgoEncoding(algo, md5) ==
    CASE algo = "MD5" -> 2 ^ 7
      [] algo = "SHA1" -> 0
      [] algo = "SHA224" -> 2 * (2 ^ 17)
      [] algo = "SHA256" -> IF md5 THEN (2 ^ 18) + (2 ^ 7) ELSE 3 * (2 ^ 17)
      [] algo = "SHA384" -> 12 * (2 ^ 17)
      [] algo = "SHA512" -> 15 * (2 ^ 17)
      [] algo = "SHA3_224" -> 4 * (2 ^ 17)
      [] algo = "SHA3_256" -> 5 * (2 ^ 17)
      [] algo = "SHA3_384" -> 6 * (2 ^ 17)
      [] OTHER -> 7 * (2 ^ 17)

\* CR as it reads back after the write the claim describes (INIT reads as 0):
\* datatype byte (2 in bits 4-5), mode bit 6, long-key bit 16, algorithm
ControlWord(c, keylen, md5) ==
    2 * 16
    + (IF c.mode = STM32_HMAC_MODE THEN 2 ^ 6 ELSE 0)
    + (IF c.mode = STM32_HMAC_MODE /\ keylen > c.block_size THEN 2 ^ 16 ELSE 0)
    + AlgoEncoding(c.algo, md5)

\* the algorithms stm32_hash_alloc accepts on a platform
Allowed(platform) == {a \in KnownAlgos : HasBit(platform, AlgoCaps(a))}

\* session s returns in this step from an init that programmed the engine
InitPrograms(s) == Returns(s) /\ ret'[s].op = "init" /\ ret'[s].locked /\ ret'[s].life0 # "None"

(* C22: init writes CR with the init bit, the byte datatype, the mode bit   *)
(* iff the session is HMAC, the long-key bit iff it is HMAC with a key      *)
(* longer than block_size, and the encoding of the session's algorithm,     *)
(* SHA-256 being bit 18 | bit 7 exactly when the capability set has MD5 and *)
(* 3 << 17 otherwise; no two algorithms the same capability set allows get  *)
(* the same encoding.                                                       *)
C22_ControlWord ==
    /\ [][\A s \in Sessions : InitPrograms(s) =>
            LET cw == ControlWord(ctx[s], ret'[s].key, HasBit(caps, CAPS_MD5))
            IN  /\ hw'.cr = cw
                /\ ret'[s].res = TEE_SUCCESS => ctx'[s].cr = cw
                /\ HwCsrRead(hw', 0) = Absorbed(EngineReset(cw, 0), din'[s], 1)
                /\ ctx[s].mode = STM32_HASH_MODE => din'[s] = <<>>]_vars
    /\ [](\A a \in Allowed(caps), b \in Allowed(caps) : a # b => AlgoCr(a, caps) # AlgoCr(b, caps))

\* an HMAC SHA-256 session on the platform with MD5, initialized with a key
\* of block_size + 1 bytes: mode, long-key and the bit 18 | bit 7 encoding
C22_Witness ==
    \E s \in Sessions :
        /\ ret[s].op = "init" /\ ret[s].res = TEE_SUCCESS /\ ret[s].algo = "SHA256" /\ ret[s].mode = STM32_HMAC_MODE
        /\ HasBit(caps, CAPS_MD5) /\ ret[s].key = ctx[s].block_size + 1
        /\ ctx[s].cr = 32 + 64 + 65536 + 262144 + 128

\* ---------------------------------------------------------------- C23
(* C23: wait_end_busy and wait_digest_ready always terminate; each computes *)
(* its deadline once, reads the flag once more after leaving the loop,      *)
(* returns success whenever that read shows the flag settled, even if the   *)
(* deadline had fired, and reports TEE_ERROR_BUSY only when the deadline    *)
(* has fired and the flag is still not settled.                             *)
C23_WaitsTerminate ==
    /\ [](wt.pc = "done" =>
            /\ wt.inits = 1 /\ wt.deadline = TimeoutTicks
            /\ wt.rereads = 1
            /\ ~wt.last => wt.res = TEE_SUCCESS
            /\ wt.res = TEE_ERROR_BUSY => (wt.fired /\ wt.last)
            /\ wt.res \in {TEE_SUCCESS, TEE_ERROR_BUSY})
    /\ [](wt.reads <= TimeoutTicks + 1)
    /\ (wt.pc = "test") ~> (wt.pc = "done")

\* a wait of the digest flag that left its loop on the deadline and found
\* the flag settled at the read after it
C23_Witness == wt.which = "dcis" /\ wt.pc = "done" /\ wt.fired /\ ~wt.last /\ wt.res = TEE_SUCCESS /\ wt.reads > 1

(* C24: whatever calls were made and however they ended, the pending       *)
(* length of an allocated context is within 0..block_size + 3 and no write *)
(* into the pending buffer (append, alignment, leftover, zeroing by init,  *)
(* the copy of deep_copy) went to an index at or above block_size + 4.     *)
Capacity(s) == ctx[s].block_size + U32
WritesInBounds(s) ==
    /\ ~ret[s].oob
    /\ (ret[s].op = "deep_copy" /\ ret[s].res = TEE_SUCCESS) => ctx[s].remain_len <= Capacity(s)
C24_PendingInBounds ==
    \A s \in Sessions :
        ctx[s].remain_buf # NULL =>
            /\ Len(heap[ctx[s].remain_buf].data) = Capacity(s)
            /\ ctx[s].remain_len \in 0..(ctx[s].block_size + 3)
            /\ WritesInBounds(s)

\* the writes alone
C24_WritesInBounds ==
    \A s \in Sessions : ctx[s].remain_buf # NULL => WritesInBounds(s)

\* an update that borrowed the bytes aligning block_size + 1..3 pending bytes and
\* then failed at the first write of the flush returned with the pending length
\* at the capacity of the buffer
C24_FailingInput ==
    /\ ret[1].op = "update" /\ ret[1].res = TEE_ERROR_BUSY /\ ret[1].life0 = "Streaming"
    /\ ret[1].algo = "SHA256" /\ ret[1].mode = STM32_HASH_MODE
    /\ ret[1].pend0 = ctx[1].block_size + 3 /\ ret[1].align = 1 /\ ~ret[1].overrun
    /\ ctx[1].remain_len = Capacity(1) /\ ~ret[1].oob

(* C25: an update never consumes more bytes than it was given: the bytes   *)
(* borrowed to align the pending bytes are no more than the new data, and  *)
(* the streaming loop writes a word only with four unread bytes or more    *)
(* left, so that the remaining length never wraps and the loop ends.       *)
C25_NoOverConsumption ==
    \A s \in Sessions :
        (ret[s].op = "update" /\ ret[s].locked) =>
            /\ ret[s].align <= ret[s].len0
            /\ ~ret[s].overrun
            /\ ~ret[s].runaway

\* SHA-256 on an engine raising DINIS at block boundaries, no status flag stuck:
\* with 65 bytes pending and the threshold at 64, update(1) borrows 3 bytes
C25_FailingInput ==
    /\ ret[1].op = "update" /\ ret[1].life0 = "Streaming" /\ ret[1].algo = "SHA256" /\ ~faulted[1]
    /\ ret[1].dinis = "block" /\ ret[1].before = [op |-> "update", res |-> TEE_SUCCESS]
    /\ ret[1].pend0 = SHA256_BLOCK_SIZE + 1 /\ ret[1].len0 = ShortLen /\ ShortLen < ret[1].align
    /\ ret[1].overrun /\ ret[1].runaway

(* C26: between calls, in a session whose calls since init all succeeded,  *)
(* every byte of the pending buffer at an index at or above the pending    *)
(* length is zero, after init, update, final and deep_copy; and the bytes  *)
(* padding the last partial word a final writes are zero.                  *)
AbovePending(s) == SubSeq(Store(s).buf, ctx[s].remain_len + 1, Len(Store(s).buf))
FinalPadding(s) ==
    LET last == WordBytes(din[s], ret[s].dataEnd, ret[s].dataEnd)
    IN  IF ret[s].pend0 % U32 = 0 THEN <<>> ELSE SubSeq(last, (ret[s].pend0 % U32) + 1, U32)
C26_ZeroAbovePending ==
    \A s \in Sessions :
        /\ (life[s] \in {"Initialized", "Streaming", "Finalized"} /\ clean[s]) =>
               AbovePending(s) = ZeroSeq(Len(AbovePending(s)))
        /\ (ret[s].op = "final" /\ ret[s].res = TEE_SUCCESS /\ ret[s].life0 \in {"Initialized", "Streaming"} /\ clean[s]) =>
               FinalPadding(s) = ZeroSeq(Len(FinalPadding(s)))

\* deep_copy of a session just initialised into one that held 65 pending bytes:
\* the 65 bytes stay in the buffer of dst above a pending length of 0, and an
\* update of one byte followed by final then writes three of them to the engine
C26_FailingInput ==
    \E d \in Sessions :
        /\ ret[d].op = "deep_copy" /\ ret[d].res = TEE_SUCCESS /\ clean[d] /\ life[d] = "Initialized"
        /\ ret[d].pend0 = ctx[d].block_size + 1 /\ ctx[d].remain_len = 0
        /\ SubSeq(AbovePending(d), 1, ret[d].pend0) = Data(d, ctx[d].block_size + U32, ret[d].pend0)
        /\ LET u == stm32_hash_update(MachineOf(hw, ctx[d], heap, din[d], base[d], Quiet, Data(d, 0, ShortLen)))
               f == stm32_hash_final(MachineOf(HwSettle(u.hw), u.c, u.heap, u.log, base[d], Quiet, <<>>), Key(d, ShortKey))
           IN  /\ u.res = TEE_SUCCESS /\ u.c.remain_len = ShortLen
               /\ f.res = TEE_SUCCESS
               /\ WordBytes(f.log, f.dataEnd, f.dataEnd) = Data(d, 0, ShortLen) \o Data(d, ctx[d].block_size + U32 + ShortLen, U32 - ShortLen)

(* C27: save and restore are a round trip on the context registers, for    *)
(* every save mode and both modes: restore writes the registers save reads *)
(* and no other, and a restore that follows the save of a session leaves   *)
(* in each of them the value the save read, whatever the engine held in    *)
(* between, also where the plain and the HMAC range of SHA-3 overlap.      *)
\* an engine whose context register j holds NCSR + j
Marked == [HwReset EXCEPT !.csr = [j \in CsrIdx |-> NCSR + j]]
\* the registers save_context reads for context c: the marks it stores
SaveReads(c, hp) ==
    UNION { { data[k] - NCSR : k \in DOMAIN data } :
                data \in {save_context(MachineOf(Marked, c, hp, <<>>, 0, Quiet, <<>>)).heap[c.csr].data} }
\* the registers restore_context writes for context c: those that end up
\* holding the word of a snapshot filled with -1
RestoreWrites(c, hp) ==
    UNION { { j \in CsrIdx : h.csr[j] = -1 } :
                h \in {restore_context(MachineOf(Marked, c, [hp EXCEPT ![c.csr].data = [k \in DOMAIN @ |-> -1]], <<>>, 0, Quiet, <<>>)).hw} }
\* the engine after a word of somebody else was written to it
Disturbed(h) == HwDinWrite(h, <<9, 9, 9, 9>>)
\* session s returns in this step from a call that ended with save_context
Saves(s) == Returns(s) /\ ret'[s].res = TEE_SUCCESS /\ (ret'[s].op = "init" \/ (ret'[s].op = "update" /\ ret'[s].flushed))
C27_RoundTrip ==
    [][\A s \in Sessions :
         Saves(s) =>
             \E reads \in {SaveReads(ctx'[s], heap')}, m \in {restore_context(MachineOf(Disturbed(hw'), ctx'[s], heap', <<>>, 0, Quiet, <<>>))} :
                 /\ RestoreWrites(ctx'[s], heap') = reads
                 /\ m.res = TEE_SUCCESS
                 /\ \A j \in reads : HwCsrRead(m.hw, j) = HwCsrRead(hw', j)
                 /\ \E j \in reads : HwCsrRead(Disturbed(hw'), j) # HwCsrRead(hw', j)]_vars

\* a SHA-3 HMAC session that streamed data and saved: the save reads registers
\* 0..87, those of 16..71 twice
C27_Witness ==
    \E s \in Sessions :
        /\ ctx[s].save_mode = SAVE_SHA3 /\ ctx[s].mode = STM32_HMAC_MODE
        /\ ret[s].op = "update" /\ ret[s].res = TEE_SUCCESS /\ ret[s].flushed /\ ret[s].nw > 0
        /\ SaveReads(ctx[s], heap) = 0..(SAVE_SHA3_HMAC_FIRST_REG + SAVE_SHA3_HMAC_NB_REG - 1)
        /\ Len(saved[s].csr) = SAVE_SHA3_NB_REG + SAVE_SHA3_HMAC_NB_REG
        /\ \A j \in SAVE_SHA3_HMAC_FIRST_REG..(SAVE_SHA3_NB_REG - 1) :
               saved[s].csr[j + 1] = saved[s].csr[j - SAVE_SHA3_HMAC_FIRST_REG + SAVE_SHA3_NB_REG + 1]
        /\ \A j \in SaveReads(ctx[s], heap) : HwCsrRead(hw, j) = HwCsrRead(restore_context(Machine(s, Quiet, <<>>)).hw, j)

(* C28: when stm32_hash_alloc fails with OutOfMemory every block it had    *)
(* obtained has been released once and the context refers to no released   *)
(* block, so that a stm32_hash_free that follows releases no block a       *)
(* second time.                                                            *)
AllocOom(s) == ret[s].op = "alloc" /\ ret[s].res = TEE_ERROR_OUT_OF_MEMORY
C28_AllocOomClean ==
    /\ [](\A s \in Sessions :
            AllocOom(s) =>
                /\ \A b \in Blocks(ctx[s]) : heap[b].st = "live"
                /\ \A b \in HeapIds : heap[b].st = "live" => \E t \in Sessions : b \in Blocks(ctx[t]) /\ ~AllocOom(t))
    /\ [][\A s \in Sessions :
            (AllocOom(s) /\ Freed(s) /\ ret'[s].op = "free") =>
                \A b \in HeapIds : heap'[b].st = "twice" => heap[b].st = "twice"]_vars

\* what the failing stm32_hash_alloc does release: the pending buffer it had
\* obtained, once, with nothing left live that no session owns
C28_AllocOomReleased ==
    \A s \in Sessions :
        AllocOom(s) =>
            /\ ctx[s].csr = NULL
            /\ \A b \in Blocks(ctx[s]) : heap[b].st = "freed"
            /\ \A b \in HeapIds : heap[b].st = "live" => \E t \in Sessions : t # s /\ b \in Blocks(ctx[t])

\* SHA-256: the calloc of the snapshot array failed, alloc released the pending
\* buffer and returned; the free that followed released the same block again
C28_FailingInput ==
    \E s \in Sessions :
        /\ ret[s].op = "free" /\ ret[s].life0 = "None" /\ ret[s].algo = "SHA256" /\ ncalls[s] = 1
        /\ ctx[s].remain_buf # NULL /\ ctx[s].csr = NULL
        /\ heap[ctx[s].remain_buf].st = "twice"
        /\ \A b \in HeapIds \ {ctx[s].remain_buf} : heap[b].st # "twice"

====
